---- MODULE Spec2Model ----
(***************************************************************************)
(* The Vole CPU of vole-rs (src/vole-rs/src/vole.rs) and its 8 bit         *)
(* floating point codec (src/vole-rs/src/floating.rs).                     *)
(*                                                                         *)
(* Floating point values are held as integers scaled by 256: every value   *)
(* the codec produces or consumes is a multiple of 1/256 of magnitude at   *)
(* most 15, which f32 represents exactly.                                  *)
(***************************************************************************)
EXTENDS Integers, Sequences, FiniteSets, TLC

VARIABLES
    registers,              \* Cpu::registers, [u8; 16]
    memory,                 \* Cpu::memory, [u8; 256]
    program_counter,        \* Cpu::program_counter, usize
    instruction_register,   \* Cpu::instruction_register, u16
    cycle,                  \* Cpu::cycle, u32, as two 16 bit halves [hi, lo]
    halted,                 \* Cpu::halted
    overflow_checks,        \* the build: "on" when integer overflow panics (debug), "off" when it wraps
                            \* (release); "open" until the first addition that overflows shows which
    panicked,               \* "none", or the message of the panic that ended the process
    mode,                   \* "idle": the caller holds the Cpu; "run": inside the loop of Cpu::run
    r,                      \* the local r of Cpu::run
    lastOp,                 \* history: the call that acted last: "new", "init", "set", "fetch",
                            \* "decode", "execute", "fmt", "cycle" or "run"
    init_program,           \* history: the bytes the last Cpu::init was given
    opcode,                 \* history: the Option<OpCode> the last decode() returned
    ret,                    \* history: the value the last returned cycle() or run() call gave its caller
    cycleRet,               \* history: the value the last cycle() gave (to the caller or to run)
    pre,                    \* history: the Cpu as it was when the last call on it was entered
    runPre,                 \* history: the Cpu as it was when the last run() was entered
    runCycles,              \* history: the number of cycle() calls the last run() has made
    steps,                  \* history: the number of cycle(), fetch(), decode() and execute() calls
                            \* made so far
    codec_log,              \* history: the calls made on the codec, each [call, arg, ret]
    rendered,               \* history: the characters the last formatting of an OpCode wrote
    program_textarea,       \* Model::program_textarea: its lines, each a sequence of characters
    error_msg,              \* Model::error_msg: "None" or the message
    running,                \* Model::running
    focus,                  \* Model::focus: "Registers", "Memory" or "Program"
    parsed,                 \* history: what the last parse_program_text returned, [ok, bytes]
    msg,                    \* history: the Msg the last update() handled, "None" before the first
    edits,                  \* history: the number of KeyInput messages handled so far
    memory_scroll,          \* Model::memory_scroll
    registers_scroll,       \* Model::registers_scroll
    handled,                \* history: the number of messages update has handled so far
    focus_log,              \* history: the FocusNext and FocusPrevious messages handled in a row up
                            \* to the last message, the last three at most, each [msg, focus] with
                            \* the focus it found
    jumps                   \* history: the number of JUMP instructions executed so far

cpuVars == <<registers, memory, program_counter, instruction_register, cycle, halted>>
vars == <<registers, memory, program_counter, instruction_register, cycle, halted,
          overflow_checks, panicked, mode, r, lastOp, init_program, opcode, ret, cycleRet, pre,
          runPre, runCycles, steps, codec_log, rendered, program_textarea, error_msg, running,
          focus, parsed, msg, edits, memory_scroll, registers_scroll, handled, focus_log,
          jumps>>

\* the fields of the Model of the terminal front end, other than its Cpu
tuiVars == <<program_textarea, error_msg, running, focus, parsed, msg, edits, memory_scroll,
             registers_scroll, handled, focus_log>>
\* what a caller of the Cpu alone leaves untouched
besideCpu == <<codec_log, rendered, program_textarea, error_msg, running, focus, parsed, msg,
               edits, memory_scroll, registers_scroll, handled, focus_log>>
\* what the front end never touches
callerVars == <<mode, r, opcode, ret, runPre, runCycles, codec_log, rendered>>

----------------------------------------------------------------------------
(* Bounds of the model *)

\* the longest program head, in 16 bit words
MaxProgWords == 2
\* the most cycle() calls in one behaviour
MaxSteps == 4
\* the most fetch(), decode() and execute() calls a caller makes on one Cpu
MaxCalls == 4
\* the most codec calls a caller chains, each taking what the one before returned
MaxCodecCalls == 4
\* the largest magnitude, in 1/256, of the dense range of values given to encode
MaxMagnitude == 3840
\* the most KeyInput messages in one behaviour
MaxEdits == 2
\* the most messages update handles in one behaviour
MaxMsgs == 4

----------------------------------------------------------------------------
(* Fixed width arithmetic *)

\* bit i of x
Bit(x, i) == (x \div (2^i)) % 2

\* the operators |, & and ^ on values of up to 16 bits
BitOr(a, b) ==
    LET f[i \in 0..16] == IF i = 16 THEN 0 ELSE (IF Bit(a, i) + Bit(b, i) > 0 THEN 2^i ELSE 0) + f[i + 1]
    IN  f[0]

BitAnd(a, b) ==
    LET f[i \in 0..16] == IF i = 16 THEN 0 ELSE (IF Bit(a, i) + Bit(b, i) = 2 THEN 2^i ELSE 0) + f[i + 1]
    IN  f[0]

BitXor(a, b) ==
    LET f[i \in 0..16] == IF i = 16 THEN 0 ELSE (IF Bit(a, i) # Bit(b, i) THEN 2^i ELSE 0) + f[i + 1]
    IN  f[0]

\* u8 << n and u8 >> n for 0 <= n < 8: the bits shifted out are lost
Shl8(x, n) == (x * (2^n)) % 256
Shr8(x, n) == x \div (2^n)

\* a faulty rotate_right: a shift, the bits that leave on the right are lost
rotate_right_sheds(x, n) == x \div (2^(n % 8))

\* u8::rotate_right(n): a circular rotation by n mod 8
rotate_right(x, n) ==
    LET k == n % 8
    IN  (x \div (2^k)) + (x % (2^k)) * (2^(8 - k))

\* a u32 is held as its two 16 bit halves, the value being hi * 65536 + lo
U32(n) == [hi |-> n \div 65536, lo |-> n % 65536]

\* u32::wrapping_add of a u32 and a small number: the carry out of the high half is lost
wrapping_add(a, b) ==
    LET sum == a.lo + b
    IN  [hi |-> (a.hi + sum \div 65536) % 65536, lo |-> sum % 65536]

----------------------------------------------------------------------------
(* Hex digits.  A text is a sequence of characters, a character a string of  *)
(* length 1.                                                                 *)

\* the digits of {:X}
UpperHex == <<"0", "1", "2", "3", "4", "5", "6", "7", "8", "9", "A", "B", "C", "D", "E", "F">>
LowerHex == <<"0", "1", "2", "3", "4", "5", "6", "7", "8", "9", "a", "b", "c", "d", "e", "f">>

\* char::to_digit(16): the value of a hex digit, -1 for any other character
to_digit(ch) ==
    IF \E d \in 1..16 : UpperHex[d] = ch THEN (CHOOSE d \in 1..16 : UpperHex[d] = ch) - 1
    ELSE IF \E d \in 1..16 : LowerHex[d] = ch THEN (CHOOSE d \in 1..16 : LowerHex[d] = ch) - 1
    ELSE -1

\* a faulty fmt_02X: {:X}, without the padding to two digits
fmt_X(b) == IF b < 16 THEN <<UpperHex[b + 1]>> ELSE <<UpperHex[(b \div 16) + 1], UpperHex[(b % 16) + 1]>>

\* format!("{:02X}", b) of a u8
fmt_02X(b) == <<UpperHex[(b \div 16) + 1], UpperHex[(b % 16) + 1]>>

----------------------------------------------------------------------------
(* floating.rs: the 8 bit floating point codec *)

sign_bit(value) == Shr8(value, 7)

\* a faulty exponent: the table starts one too high
exponent_one_up(value) == <<-3, -2, -1, 0, 1, 2, 3, 4>>[Shr8(BitAnd(value, 112), 4) + 1]

\* Floating::exponent: the match on the three exponent bits, as a table
exponent(value) == <<-4, -3, -2, -1, 0, 1, 2, 3>>[Shr8(BitAnd(value, 112), 4) + 1]

mantissa(value) == BitAnd(value, 15)

\* the loop of Floating::decode: the sum of the float bits' values, scaled by 256
decode_float_part(float_bits, float_part_len) ==
    LET sum[i \in 0..float_part_len] ==
            IF i = 0 THEN 0
            ELSE sum[i - 1] + (256 \div (2^i)) * (Shr8(float_bits, float_part_len - i) % 2)
    IN  sum[float_part_len]

\* Floating::decode from float_part_len on: int_part as f32 + float_part, negated
\* for sign 1
decode_parts(sign, m, e, float_part_len) ==
    (IF sign = 1 THEN -1 ELSE 1)
    * ((IF e <= 0 THEN 0 ELSE Shr8(m, float_part_len)) * 256
       + decode_float_part(Shr8(Shl8(m, 8 - float_part_len), 8 - float_part_len),
                           float_part_len))

\* Floating::decode, the result scaled by 256
Floating_decode(value) ==
    decode_parts(sign_bit(value), mantissa(value), exponent(value), 4 - exponent(value))

Min(a, b) == IF a < b THEN a ELSE b
AbsInt(x) == IF x < 0 THEN -x ELSE x

\* a faulty encode_exponent: a fraction below 0.03125 is refused whenever the integer
\* part is not 0
encode_exponent_refuses(int_value, fract_value) ==
    IF fract_value < 8 /\ int_value # 0 THEN -1
    ELSE IF int_value >= 4 THEN 7
    ELSE IF int_value >= 2 THEN 6
    ELSE IF int_value >= 1 THEN 5
    ELSE IF fract_value >= 128 THEN 4
    ELSE IF fract_value >= 64 THEN 3
    ELSE IF fract_value >= 32 THEN 2
    ELSE IF fract_value >= 16 THEN 1
    ELSE 0

\* a faulty encode_exponent: a fraction below 0.03125 is refused for every integer part
encode_exponent_strict(int_value, fract_value) ==
    IF int_value >= 4 THEN 7
    ELSE IF int_value >= 2 THEN 6
    ELSE IF int_value >= 1 THEN 5
    ELSE IF fract_value >= 128 THEN 4
    ELSE IF fract_value >= 64 THEN 3
    ELSE IF fract_value >= 32 THEN 2
    ELSE IF fract_value >= 16 THEN 1
    ELSE IF fract_value >= 8 THEN 0
    ELSE -1

\* the exponent bits Floating::encode chooses; -1 stands for panic!("unrepresentable")
encode_exponent(int_value, fract_value) ==
    IF int_value >= 4 THEN 7
    ELSE IF int_value >= 2 THEN 6
    ELSE IF int_value >= 1 THEN 5
    ELSE IF fract_value >= 128 THEN 4
    ELSE IF fract_value >= 64 THEN 3
    ELSE IF fract_value >= 32 THEN 2
    ELSE IF fract_value >= 16 THEN 1
    ELSE IF fract_value >= 8 \/ int_value = 0 THEN 0
    ELSE -1

\* one "if running_i >= weight" of Floating::encode, which takes dec from running_i
encode_int_step(s, weight, dec, bit, shift) ==
    IF s.running_i >= weight
    THEN [s EXCEPT !.bits = BitOr(s.bits, bit), !.running_i = s.running_i - dec,
                   !.shift = Min(s.shift, shift)]
    ELSE s

\* a faulty encode_fract_step: the bit is set from half its weight on
encode_fract_step_eager(s, weight, dec, bit, shift) ==
    IF 2 * s.running_f >= weight
    THEN [s EXCEPT !.bits = BitOr(s.bits, bit), !.running_f = s.running_f - dec,
                   !.shift = Min(s.shift, shift)]
    ELSE s

\* one "if running_f >= weight" of Floating::encode, which takes dec from running_f
encode_fract_step(s, weight, dec, bit, shift) ==
    IF s.running_f >= weight
    THEN [s EXCEPT !.bits = BitOr(s.bits, bit), !.running_f = s.running_f - dec,
                   !.shift = Min(s.shift, shift)]
    ELSE s

\* the end of the mantissa block of Floating::encode: (bits << shift) >> 4
encode_align(s) == Shr8(Shl8(s.bits, s.shift), 4)

\* the mantissa Floating::encode builds; the fractions are scaled by 256
encode_mantissa(int_value, fract_value) ==
    encode_align(
        encode_fract_step(
        encode_fract_step(
        encode_fract_step(
        encode_fract_step(
        encode_fract_step(
        encode_int_step(
        encode_int_step(
        encode_int_step(
            [bits |-> 0, running_i |-> int_value, running_f |-> fract_value, shift |-> 7],
            4, 4, 128, 0),
            2, 2, 64, 1),
            1, 0, 32, 2),
            128, 128, 16, 3),
            64, 64, 8, 4),
            32, 32, 4, 5),
            16, 16, 2, 6),
            8, 0, 1, 7))

\* the end of Floating::encode: sign, exponent and mantissa in one byte
encode_pack(sign, exponent_value, m) ==
    IF exponent_value = -1
    THEN [value |-> 0, panic |-> "unrepresentable"]
    ELSE [value |-> BitOr(BitOr(Shl8(sign, 7), Shl8(exponent_value, 4)), m),
          panic |-> "none"]

\* "value as i8" of a value scaled by 256: the fraction is dropped and the result
\* saturates at the ends of i8
as_i8(value) ==
    IF value >= 127 * 256 THEN 127
    ELSE IF value <= -(128 * 256) THEN -128
    ELSE IF value < 0 THEN -((-value) \div 256)
    ELSE value \div 256

\* Floating::encode from "(value as i8)" on: i8::abs of i8::MIN overflows, which panics
\* when overflow is checked and gives i8::MIN when it is not
encode_abs(sign, i, fract_value, checks) ==
    IF i = -128 /\ checks
    THEN [value |-> 0, panic |-> "attempt to negate with overflow"]
    ELSE encode_pack(sign,
                     encode_exponent(IF i = -128 THEN -128 ELSE AbsInt(i), fract_value),
                     encode_mantissa(IF i = -128 THEN -128 ELSE AbsInt(i), fract_value))

\* Floating::encode of a value scaled by 256: [value, panic]
Floating_encode(value, checks) ==
    encode_abs(IF value < 0 THEN 1 ELSE 0, as_i8(value), AbsInt(value) % 256, checks)

----------------------------------------------------------------------------
(* vole.rs: the Cpu *)

\* the Cpu the variables hold
Cpu ==
    [registers |-> registers, memory |-> memory, program_counter |-> program_counter,
     instruction_register |-> instruction_register, cycle |-> cycle, halted |-> halted]

\* the variables take the fields of the Cpu c
SetCpu(c) ==
    /\ registers' = c.registers
    /\ memory' = c.memory
    /\ program_counter' = c.program_counter
    /\ instruction_register' = c.instruction_register
    /\ cycle' = c.cycle
    /\ halted' = c.halted

\* Cpu::new
Cpu_new ==
    [registers |-> [i \in 0..15 |-> 0], memory |-> [a \in 0..255 |-> 0],
     program_counter |-> 0, instruction_register |-> 0, cycle |-> U32(0), halted |-> FALSE]

\* a faulty Cpu_init: a program that fills the memory is turned down
Cpu_init_strict(program) ==
    IF Len(program) >= 256
    THEN [cpu |-> Cpu_new, panic |-> "given program does not fit into memory"]
    ELSE [cpu |-> [Cpu_new EXCEPT !.memory =
                      [a \in 0..255 |-> IF a < Len(program) THEN program[a + 1] ELSE 0]],
          panic |-> "none"]

\* Cpu::init: [cpu, panic]; program is a sequence of bytes
Cpu_init(program) ==
    IF Len(program) > 256
    THEN [cpu |-> Cpu_new, panic |-> "given program does not fit into memory"]
    ELSE [cpu |-> [Cpu_new EXCEPT !.memory =
                      [a \in 0..255 |-> IF a < Len(program) THEN program[a + 1] ELSE 0]],
          panic |-> "none"]

\* a faulty fetch: no bounds check, a byte past the memory reads as 0
fetch_reads_past(c) ==
    [cpu |-> [c EXCEPT !.instruction_register =
                 BitOr((IF c.program_counter > 255 THEN 0
                        ELSE c.memory[c.program_counter]) * 256,
                       IF c.program_counter + 1 > 255 THEN 0
                       ELSE c.memory[c.program_counter + 1])],
     panic |-> "none"]

\* a faulty fetch: the low byte is taken from the lower address
fetch_low_byte_first(c) ==
    IF c.program_counter > 255 \/ c.program_counter + 1 > 255
    THEN [cpu |-> c, panic |-> "index out of bounds"]
    ELSE [cpu |-> [c EXCEPT !.instruction_register =
                      BitOr(c.memory[c.program_counter + 1] * 256,
                            c.memory[c.program_counter])],
          panic |-> "none"]

\* Cpu::fetch: [cpu, panic]; indexing memory at 256 or above panics
fetch(c) ==
    IF c.program_counter > 255 \/ c.program_counter + 1 > 255
    THEN [cpu |-> c, panic |-> "index out of bounds"]
    ELSE [cpu |-> [c EXCEPT !.instruction_register =
                      BitOr(c.memory[c.program_counter] * 256,
                            c.memory[c.program_counter + 1])],
          panic |-> "none"]

get_opcode_bits(instr) == (instr \div 4096) % 256
get_operand1_bits(instr) == ((instr \div 256) % 16) % 256
get_operand2_bits(instr) == ((instr \div 16) % 16) % 256
get_operand3_bits(instr) == (instr % 16) % 256

\* a faulty get_operand23_bits: the mask is 0x000F
get_operand23_bits_nibble(instr) == (instr % 16) % 256

get_operand23_bits(instr) == (instr % 256) % 256

\* Cpu::decode: the OpCode, or [code |-> "None"]
decode(c) ==
    LET ir == c.instruction_register
        opcode_bits == get_opcode_bits(ir)
        operand1 == get_operand1_bits(ir)
        operand2 == get_operand2_bits(ir)
        operand3 == get_operand3_bits(ir)
    IN  CASE opcode_bits = 1 -> [code |-> "LoadAddr", reg |-> operand1, addr |-> get_operand23_bits(ir)]
          [] opcode_bits = 2 -> [code |-> "LoadValue", reg |-> operand1, value |-> get_operand23_bits(ir)]
          [] opcode_bits = 3 -> [code |-> "Store", reg |-> operand1, addr |-> get_operand23_bits(ir)]
          [] opcode_bits = 4 -> [code |-> "Move", source_reg |-> operand2, target_reg |-> operand3]
          [] opcode_bits = 5 -> [code |-> "AddInt", target_reg |-> operand1, reg1 |-> operand2, reg2 |-> operand3]
          [] opcode_bits = 6 -> [code |-> "AddFloat", target_reg |-> operand1, reg1 |-> operand2, reg2 |-> operand3]
          [] opcode_bits = 7 -> [code |-> "Or", target_reg |-> operand1, reg1 |-> operand2, reg2 |-> operand3]
          [] opcode_bits = 8 -> [code |-> "And", target_reg |-> operand1, reg1 |-> operand2, reg2 |-> operand3]
          [] opcode_bits = 9 -> [code |-> "Xor", target_reg |-> operand1, reg1 |-> operand2, reg2 |-> operand3]
          [] opcode_bits = 10 -> [code |-> "Rotate", reg |-> operand1, times |-> operand3]
          [] opcode_bits = 11 -> [code |-> "Jump", reg |-> operand1, addr |-> get_operand23_bits(ir)]
          [] opcode_bits = 12 -> [code |-> "Halt"]
          [] OTHER -> [code |-> "None"]

Ok(c) == [cpu |-> c, panic |-> "none"]

\* the LoadAddr arm
execute_LoadAddr(c, op) == [c EXCEPT !.registers[op.reg] = c.memory[op.addr]]

\* the LoadValue arm
execute_LoadValue(c, op) == [c EXCEPT !.registers[op.reg] = op.value]

\* a faulty execute_Store: the cell is copied to the register
execute_Store_loads(c, op) == [c EXCEPT !.registers[op.reg] = c.memory[op.addr]]

\* the Store arm
execute_Store(c, op) == [c EXCEPT !.memory[op.addr] = c.registers[op.reg]]

\* a faulty execute_Move: source and target are swapped
execute_Move_swapped(c, op) ==
    [c EXCEPT !.registers[op.source_reg] = c.registers[op.target_reg]]

\* the Move arm
execute_Move(c, op) == [c EXCEPT !.registers[op.target_reg] = c.registers[op.source_reg]]

\* u8 + u8: panics when the build checks overflow, wraps when it does not
execute_AddInt(c, op, checks) ==
    LET sum == c.registers[op.reg1] + c.registers[op.reg2]
    IN  IF sum > 255 /\ checks
        THEN [cpu |-> c, panic |-> "attempt to add with overflow"]
        ELSE Ok([c EXCEPT !.registers[op.target_reg] = sum % 256])

\* the end of the AddFloat arm: the encoded sum goes to the target register
execute_AddFloat_store(c, op, f3) ==
    IF f3.panic # "none"
    THEN [cpu |-> c, panic |-> f3.panic]
    ELSE Ok([c EXCEPT !.registers[op.target_reg] = f3.value])

\* a faulty execute_AddFloat: the bytes are added as integers and the sum is encoded
execute_AddFloat_of_bytes(c, op, checks) ==
    execute_AddFloat_store(c, op,
        Floating_encode((c.registers[op.reg1] + c.registers[op.reg2]) * 256, checks))

execute_AddFloat(c, op, checks) ==
    execute_AddFloat_store(c, op,
        Floating_encode(Floating_decode(c.registers[op.reg1])
                        + Floating_decode(c.registers[op.reg2]), checks))

\* the Or arm
execute_Or(c, op) ==
    [c EXCEPT !.registers[op.target_reg] = BitOr(c.registers[op.reg1], c.registers[op.reg2])]

\* a faulty execute_And: the arm of Or, copied and not changed
execute_And_ors(c, op) ==
    [c EXCEPT !.registers[op.target_reg] = BitOr(c.registers[op.reg1], c.registers[op.reg2])]

\* the And arm
execute_And(c, op) ==
    [c EXCEPT !.registers[op.target_reg] = BitAnd(c.registers[op.reg1], c.registers[op.reg2])]

\* the Xor arm
execute_Xor(c, op) ==
    [c EXCEPT !.registers[op.target_reg] = BitXor(c.registers[op.reg1], c.registers[op.reg2])]

execute_Jump(c, op) ==
    IF c.registers[0] = c.registers[op.reg]
    THEN [c EXCEPT !.program_counter = c.memory[op.addr]]
    ELSE c

\* a faulty execute_Halt: HALT flips the flag
execute_Halt_toggles(c) == [c EXCEPT !.halted = ~c.halted]

execute_Halt(c) == [c EXCEPT !.halted = TRUE]

\* the first match of Cpu::execute: the effect of the opcode
execute_effect(c, op, checks) ==
    CASE op.code = "LoadAddr" -> Ok(execute_LoadAddr(c, op))
      [] op.code = "LoadValue" -> Ok(execute_LoadValue(c, op))
      [] op.code = "Store" -> Ok(execute_Store(c, op))
      [] op.code = "Move" -> Ok(execute_Move(c, op))
      [] op.code = "AddInt" -> execute_AddInt(c, op, checks)
      [] op.code = "AddFloat" -> execute_AddFloat(c, op, checks)
      [] op.code = "Or" -> Ok(execute_Or(c, op))
      [] op.code = "And" -> Ok(execute_And(c, op))
      [] op.code = "Xor" -> Ok(execute_Xor(c, op))
      [] op.code = "Rotate" ->
            Ok([c EXCEPT !.registers[op.reg] = rotate_right(c.registers[op.reg], op.times)])
      [] op.code = "Jump" -> Ok(execute_Jump(c, op))
      [] op.code = "Halt" -> Ok(execute_Halt(c))

\* a faulty execute_advance: the program counter moves on after a Jump too
execute_advance_always(c, op) == [c EXCEPT !.program_counter = c.program_counter + 2]

\* the second match of Cpu::execute: the program counter moves on, but not after a Jump
execute_advance(c, op) ==
    IF op.code = "Jump" THEN c ELSE [c EXCEPT !.program_counter = c.program_counter + 2]

\* the mnemonics of impl Display for OpCode
Mnemonic(code) ==
    CASE code = "LoadAddr" -> <<"L", "O", "A", "D", "A", "D", "D", "R">>
      [] code = "LoadValue" -> <<"L", "O", "A", "D", "V", "A", "L", "U", "E">>
      [] code = "Store" -> <<"S", "T", "O", "R", "E">>
      [] code = "Move" -> <<"M", "O", "V", "E">>
      [] code = "AddInt" -> <<"A", "D", "D", "I", "N", "T">>
      [] code = "AddFloat" -> <<"A", "D", "D", "F", "L", "O", "A", "T">>
      [] code = "Or" -> <<"O", "R">>
      [] code = "And" -> <<"A", "N", "D">>
      [] code = "Xor" -> <<"X", "O", "R">>
      [] code = "Rotate" -> <<"R", "O", "T", "A", "T", "E">>
      [] code = "Jump" -> <<"J", "U", "M", "P">>
      [] code = "Halt" -> <<"H", "A", "L", "T">>

\* " 0x{:02X}" of the format strings
fmt_operand(b) == <<" ", "0", "x">> \o fmt_02X(b)

\* the format strings with two and with three operands
fmt_two(code, a, b) == Mnemonic(code) \o fmt_operand(a) \o fmt_operand(b)
fmt_three(code, a, b, c) == Mnemonic(code) \o fmt_operand(a) \o fmt_operand(b) \o fmt_operand(c)

\* impl Display for OpCode: the text fmt writes
OpCode_fmt(op) ==
    CASE op.code = "LoadAddr" -> fmt_two(op.code, op.reg, op.addr)
      [] op.code = "LoadValue" -> fmt_two(op.code, op.reg, op.value)
      [] op.code = "Store" -> fmt_two(op.code, op.reg, op.addr)
      [] op.code = "Move" -> fmt_two(op.code, op.source_reg, op.target_reg)
      [] op.code \in {"AddInt", "AddFloat", "Or", "And", "Xor"} ->
            fmt_three(op.code, op.target_reg, op.reg1, op.reg2)
      [] op.code = "Rotate" -> fmt_two(op.code, op.reg, op.times)
      [] op.code = "Jump" -> fmt_two(op.code, op.reg, op.addr)
      [] op.code = "Halt" -> Mnemonic(op.code)

\* Cpu::execute: [cpu, panic]
execute(c, op, checks) ==
    LET e == execute_effect(c, op, checks)
    IN  IF e.panic # "none" THEN e ELSE Ok(execute_advance(e.cpu, op))

\* a faulty cycle_illegal: the failed cycle is counted
cycle_illegal_counts(c) == [c EXCEPT !.halted = TRUE, !.cycle = wrapping_add(c.cycle, 1)]

\* the else branch of Cpu::cycle: the instruction was illegal
cycle_illegal(c) == [c EXCEPT !.halted = TRUE]

\* the Some branch of Cpu::cycle, after execute returned
cycle_count(c) == [c EXCEPT !.cycle = wrapping_add(c.cycle, 1)]

\* Cpu::cycle: [cpu, ret, panic]; ret means nothing when the call panicked
Cpu_cycle(c, checks) ==
    LET f == fetch(c)
        op == decode(f.cpu)
        e == execute(f.cpu, op, checks)
    IN  IF f.panic # "none" THEN [cpu |-> f.cpu, ret |-> FALSE, panic |-> f.panic]
        ELSE IF op.code # "None"
        THEN IF e.panic # "none"
             THEN [cpu |-> e.cpu, ret |-> FALSE, panic |-> e.panic]
             ELSE [cpu |-> cycle_count(e.cpu), ret |-> TRUE, panic |-> "none"]
        ELSE [cpu |-> cycle_illegal(f.cpu), ret |-> FALSE, panic |-> "none"]

\* a faulty run: r starts false; the loop never turns
run_initial_r_false == FALSE
run_continues_never(c) == FALSE

\* Cpu::run: the value r starts with, and the condition of its loop
run_initial_r == TRUE
run_continues(c) == ~c.halted

----------------------------------------------------------------------------
(* The programs given to Cpu::init *)

\* 16 bit instruction words the programs are made of
ProgramWords ==
    { 4100,     \* 0x1004 LOADADDR  r0 <- memory[0x04]
      8447,     \* 0x20FF LOADVALUE r0 <- 0xFF
      8453,     \* 0x2105 LOADVALUE r1 <- 0x05
      12798,    \* 0x31FE STORE     memory[0xFE] <- r1
      16385,    \* 0x4001 MOVE      r1 <- r0
      20992,    \* 0x5200 ADDINT    r2 <- r0 + r0
      25089,    \* 0x6201 ADDFLOAT  r2 <- r0 + r1
      29185,    \* 0x7201 OR        r2 <- r0 | r1
      33281,    \* 0x8201 AND       r2 <- r0 & r1
      37377,    \* 0x9201 XOR       r2 <- r0 ^ r1
      41219,    \* 0xA103 ROTATE    r1 by 3
      45315,    \* 0xB103 JUMP      if r1 = r0, to memory[0x03]
      49152,    \* 0xC000 HALT
      54018 }   \* 0xD302 illegal

\* words a 256 byte program may end with, at addresses 0xFE and 0xFF; 0 for a short program
TailWords == {0, 8453}

\* the bytes of a sequence of words, the high byte of each word first
HeadBytes(ws) ==
    [i \in 1..(2 * Len(ws)) |->
        IF i % 2 = 1 THEN ws[(i + 1) \div 2] \div 256 ELSE ws[i \div 2] % 256]

\* the program: the head, and for a tail word zero bytes up to address 0xFE and then the tail
ProgramBytes(ws, tail) ==
    LET head == HeadBytes(ws)
    IN  IF tail = 0 THEN head
        ELSE [a \in 1..256 |->
                IF a <= Len(head) THEN head[a]
                ELSE IF a = 255 THEN tail \div 256
                ELSE IF a = 256 THEN tail % 256
                ELSE 0]

\* the heads: every sequence of up to MaxProgWords words, and LOADVALUE, HALT, JUMP, a
\* program that halts ahead of a JUMP whose registers differ
Heads ==
    UNION {[1..n -> ProgramWords] : n \in 0..MaxProgWords} \cup {<<8453, 49152, 45315>>}

\* nothing but the Cpu is in use
InitBesideCpu ==
    /\ codec_log = <<>>
    /\ rendered = <<>>
    /\ program_textarea = <<>>
    /\ error_msg = "None"
    /\ running = TRUE
    /\ focus = "Memory"
    /\ parsed = [ok |-> TRUE, bytes |-> <<>>]
    /\ msg = "None"
    /\ edits = 0
    /\ memory_scroll = 0
    /\ registers_scroll = 0
    /\ handled = 0
    /\ focus_log = <<>>

----------------------------------------------------------------------------
(* The state machine: a caller that owns one Cpu and calls cycle() and run() *)

Init ==
    \E ws \in Heads, tail \in TailWords :
      \E prog \in {ProgramBytes(ws, tail)} :
        \E c \in {Cpu_init(prog).cpu} :
            /\ registers = c.registers
            /\ memory = c.memory
            /\ program_counter = c.program_counter
            /\ instruction_register = c.instruction_register
            /\ cycle = c.cycle
            /\ halted = c.halted
            /\ overflow_checks = "open"
            /\ panicked = "none"
            /\ mode = "idle"
            /\ r = TRUE
            /\ lastOp = "init"
            /\ init_program = prog
            /\ opcode = [code |-> "None"]
            /\ ret = TRUE
            /\ cycleRet = TRUE
            /\ pre = c
            /\ runPre = c
            /\ runCycles = 0
            /\ steps = 0
            /\ jumps = 0
            /\ InitBesideCpu

\* the next cycle() adds two registers whose sum does not fit a u8
CycleOverflows ==
    LET f == fetch(Cpu)
        op == decode(f.cpu)
    IN  /\ f.panic = "none"
        /\ op.code = "AddInt"
        /\ registers[op.reg1] + registers[op.reg2] > 255

\* the builds the next cycle() can run under: TRUE checks overflow, FALSE wraps; the
\* two differ only when the cycle overflows, and the first overflow settles the build
Builds ==
    IF overflow_checks # "open" THEN {overflow_checks = "on"}
    ELSE IF CycleOverflows THEN BOOLEAN
    ELSE {FALSE}

BuildAfter(checks) ==
    IF overflow_checks = "open" /\ CycleOverflows
    THEN IF checks THEN "on" ELSE "off"
    ELSE overflow_checks

\* the JUMPs executed so far, after a cycle() with the outcome res
jumps_after(res) ==
    IF res.panic = "none" /\ res.ret /\ res.cpu.instruction_register \div 4096 = 11
    THEN jumps + 1
    ELSE jumps

\* the caller calls cpu.cycle()
Cycle ==
    /\ mode = "idle"
    /\ panicked = "none"
    /\ steps < MaxSteps
    /\ \E checks \in Builds :
          \E res \in {Cpu_cycle(Cpu, checks)} :
              /\ SetCpu(res.cpu)
              /\ panicked' = res.panic
              /\ ret' = IF res.panic = "none" THEN res.ret ELSE ret
              /\ cycleRet' = IF res.panic = "none" THEN res.ret ELSE cycleRet
              /\ overflow_checks' = BuildAfter(checks)
              /\ jumps' = jumps_after(res)
    /\ lastOp' = "cycle"
    /\ pre' = Cpu
    /\ steps' = steps + 1
    /\ UNCHANGED <<mode, r, init_program, opcode, runPre, runCycles>>
    /\ UNCHANGED besideCpu

\* the caller calls cpu.run(): let mut r = true
Run ==
    /\ mode = "idle"
    /\ panicked = "none"
    /\ mode' = "run"
    /\ r' = run_initial_r
    /\ runPre' = Cpu
    /\ runCycles' = 0
    /\ lastOp' = "run"
    /\ UNCHANGED <<cpuVars, overflow_checks, panicked, init_program, opcode, ret, cycleRet, pre,
                   steps, jumps>>
    /\ UNCHANGED besideCpu

\* one turn of the loop of run(): r = self.cycle()
RunCycle ==
    /\ mode = "run"
    /\ panicked = "none"
    /\ run_continues(Cpu)
    /\ steps < MaxSteps
    /\ \E checks \in Builds :
          \E res \in {Cpu_cycle(Cpu, checks)} :
              /\ SetCpu(res.cpu)
              /\ panicked' = res.panic
              /\ r' = IF res.panic = "none" THEN res.ret ELSE r
              /\ cycleRet' = IF res.panic = "none" THEN res.ret ELSE cycleRet
              /\ overflow_checks' = BuildAfter(checks)
              /\ jumps' = jumps_after(res)
    /\ pre' = Cpu
    /\ runCycles' = runCycles + 1
    /\ steps' = steps + 1
    /\ UNCHANGED <<mode, lastOp, init_program, opcode, ret, runPre>>
    /\ UNCHANGED besideCpu

\* the loop of run() ends and run() returns r
RunReturn ==
    /\ mode = "run"
    /\ panicked = "none"
    /\ ~run_continues(Cpu)
    /\ mode' = "idle"
    /\ ret' = r
    /\ UNCHANGED <<cpuVars, overflow_checks, panicked, r, lastOp, init_program, opcode, cycleRet,
                   pre, runPre, runCycles, steps, jumps>>
    /\ UNCHANGED besideCpu

Next == Cycle \/ Run \/ RunCycle \/ RunReturn

Spec == Init /\ [][Next]_vars

----------------------------------------------------------------------------
(* The state machine of a caller that builds a Cpu with Cpu::init, writes    *)
(* its public registers as the tests do, and calls fetch(), decode() and     *)
(* execute() one by one, in any order.                                       *)

\* the instruction words of the one-instruction programs
ApiWords ==
    { 0,        \* 0x0000 illegal
      4660,     \* 0x1234 LOADADDR  r2 <- memory[0x34]
      4867,     \* 0x1303 LOADADDR  r3 <- memory[0x03]
      12193,    \* 0x2FA1 LOADVALUE rF <- 0xA1
      12544,    \* 0x3100 STORE     memory[0x00] <- r1
      12546,    \* 0x3102 STORE     memory[0x02] <- r1
      12799,    \* 0x31FF STORE     memory[0xFF] <- r1
      16402,    \* 0x4012 MOVE      r2 <- r1
      20257,    \* 0x4F21 MOVE      r1 <- r2, bits 11-8 set
      20754,    \* 0x5112 ADDINT    r1 <- r1 + r2
      21266,    \* 0x5312 ADDINT    r3 <- r1 + r2
      24850,    \* 0x6112 ADDFLOAT  r1 <- r1 + r2
      25362,    \* 0x6312 ADDFLOAT  r3 <- r1 + r2
      28946,    \* 0x7112 OR        r1 <- r1 | r2
      29458,    \* 0x7312 OR        r3 <- r1 | r2
      33298,    \* 0x8212 AND       r2 <- r1 & r2
      33554,    \* 0x8312 AND       r3 <- r1 & r2
      37137,    \* 0x9111 XOR       r1 <- r1 ^ r1
      37650,    \* 0x9312 XOR       r3 <- r1 ^ r2
      45315,    \* 0xB103 JUMP      if r1 = r0, to memory[0x03]
      49152,    \* 0xC000 HALT
      54018,    \* 0xD302 illegal
      61731 }   \* 0xF123 illegal
    \cup {41216 + x : x \in 0..15}          \* 0xA10X ROTATE r1 by X, for every X
    \cup {41216 + 240 + x : x \in {3, 11}}  \* 0xA1FX ROTATE r1 by X, bits 7-4 set

\* the bytes of a sequence of n zero bytes
ZeroBytes(n) == [a \in 1..n |-> 0]

\* the programs given to Cpu::init: none, one byte, one instruction, one instruction
\* and a byte of data, a full memory, and one byte more than the memory holds
ApiPrograms ==
    {<<>>, <<192>>}
    \cup {HeadBytes(<<w>>) : w \in ApiWords}
    \cup {HeadBytes(<<w>>) \o <<0, 171>> : w \in {4660, 4867, 45315}}
    \cup {[ZeroBytes(256) EXCEPT ![1] = 192, ![256] = 7], ZeroBytes(257)}

\* the values the caller writes to registers 1 and 2
Reg1Values == {3, 7, 128, 192, 243, 255}
Reg2Values == {1, 5, 128}

ApiInit ==
    /\ registers = Cpu_new.registers
    /\ memory = Cpu_new.memory
    /\ program_counter = Cpu_new.program_counter
    /\ instruction_register = Cpu_new.instruction_register
    /\ cycle = Cpu_new.cycle
    /\ halted = Cpu_new.halted
    /\ overflow_checks = "open"
    /\ panicked = "none"
    /\ mode = "idle"
    /\ r = TRUE
    /\ lastOp = "new"
    /\ init_program = <<>>
    /\ opcode = [code |-> "None"]
    /\ ret = TRUE
    /\ cycleRet = TRUE
    /\ pre = Cpu_new
    /\ runPre = Cpu_new
    /\ runCycles = 0
    /\ steps = 0
    /\ jumps = 0
    /\ InitBesideCpu

\* the caller replaces its Cpu: cpu = Cpu::init(&program); a panic ends the caller
\* before the assignment
CallInit ==
    /\ lastOp = "new"
    /\ panicked = "none"
    /\ \E prog \in ApiPrograms :
          \E res \in {Cpu_init(prog)} :
              /\ init_program' = prog
              /\ panicked' = res.panic
              /\ IF res.panic = "none" THEN SetCpu(res.cpu) ELSE UNCHANGED cpuVars
    /\ lastOp' = "init"
    /\ pre' = Cpu
    /\ UNCHANGED <<overflow_checks, mode, r, opcode, ret, cycleRet, runPre, runCycles, steps, jumps>>
    /\ UNCHANGED besideCpu

\* the caller writes the public field: cpu.registers[1] = a; cpu.registers[2] = b
SetRegisters ==
    /\ lastOp = "init"
    /\ panicked = "none"
    /\ \E a \in Reg1Values, b \in Reg2Values :
          registers' = [registers EXCEPT ![1] = a, ![2] = b]
    /\ lastOp' = "set"
    /\ pre' = Cpu
    /\ UNCHANGED <<memory, program_counter, instruction_register, cycle, halted,
                   overflow_checks, panicked, mode, r, init_program, opcode, ret, cycleRet,
                   runPre, runCycles, steps, jumps>>
    /\ UNCHANGED besideCpu

\* the caller calls cpu.fetch()
Fetch ==
    /\ lastOp # "new"
    /\ panicked = "none"
    /\ steps < MaxCalls
    /\ \E res \in {fetch(Cpu)} :
          /\ SetCpu(res.cpu)
          /\ panicked' = res.panic
    /\ lastOp' = "fetch"
    /\ pre' = Cpu
    /\ steps' = steps + 1
    /\ UNCHANGED jumps
    /\ UNCHANGED <<overflow_checks, mode, r, init_program, opcode, ret, cycleRet, runPre,
                   runCycles>>
    /\ UNCHANGED besideCpu

\* the caller calls cpu.decode() and keeps what it returns
Decode ==
    /\ lastOp # "new"
    /\ panicked = "none"
    /\ steps < MaxCalls
    /\ opcode' = decode(Cpu)
    /\ lastOp' = "decode"
    /\ pre' = Cpu
    /\ steps' = steps + 1
    /\ UNCHANGED jumps
    /\ UNCHANGED <<cpuVars, overflow_checks, panicked, mode, r, init_program, ret, cycleRet,
                   runPre, runCycles>>
    /\ UNCHANGED besideCpu

\* the execute() to come adds two registers whose sum does not fit a u8
ExecuteOverflows ==
    /\ opcode.code = "AddInt"
    /\ registers[opcode.reg1] + registers[opcode.reg2] > 255

\* the builds the execute() to come can run under, as Builds
ExecuteBuilds ==
    IF overflow_checks # "open" THEN {overflow_checks = "on"}
    ELSE IF ExecuteOverflows THEN BOOLEAN
    ELSE {FALSE}

ExecuteBuildAfter(checks) ==
    IF overflow_checks = "open" /\ ExecuteOverflows
    THEN IF checks THEN "on" ELSE "off"
    ELSE overflow_checks

\* the caller calls cpu.execute(opcode) with the OpCode its last decode() returned
Execute ==
    /\ lastOp # "new"
    /\ panicked = "none"
    /\ steps < MaxCalls
    /\ opcode.code # "None"
    /\ \E checks \in ExecuteBuilds :
          \E res \in {execute(Cpu, opcode, checks)} :
              /\ SetCpu(res.cpu)
              /\ panicked' = res.panic
              /\ overflow_checks' = ExecuteBuildAfter(checks)
              /\ jumps' = IF opcode.code = "Jump" /\ res.panic = "none" THEN jumps + 1 ELSE jumps
    /\ lastOp' = "execute"
    /\ pre' = Cpu
    /\ steps' = steps + 1
    /\ UNCHANGED <<mode, r, init_program, opcode, ret, cycleRet, runPre, runCycles>>
    /\ UNCHANGED besideCpu

\* the caller formats the OpCode its last decode() returned, as the front end does for
\* its instruction register pane
Format ==
    /\ lastOp # "new"
    /\ panicked = "none"
    /\ steps < MaxCalls
    /\ opcode.code # "None"
    /\ rendered' = OpCode_fmt(opcode)
    /\ lastOp' = "fmt"
    /\ pre' = Cpu
    /\ steps' = steps + 1
    /\ UNCHANGED jumps
    /\ UNCHANGED <<cpuVars, overflow_checks, panicked, mode, r, init_program, opcode, ret,
                   cycleRet, runPre, runCycles, codec_log, tuiVars>>

ApiNext == CallInit \/ SetRegisters \/ Fetch \/ Decode \/ Execute \/ Format

ApiSpec == ApiInit /\ [][ApiNext]_vars

----------------------------------------------------------------------------
(* The state machine of a caller of the codec: it decodes a byte or encodes  *)
(* a value, and then feeds each result to the other function.               *)

\* the values given to encode, scaled by 256: every multiple of 1/256 of magnitude up
\* to 15, the largest sum of two decoded bytes, and values beyond, up to and past the
\* ends of i8
EncodeValues ==
    (-MaxMagnitude..MaxMagnitude)
    \cup {25604, 32512, 32712, 32768, 32896, 51200,
          -25604, -32512, -32712, -32768, -32896, -51200}

\* the last call made on the codec
LastCall == codec_log[Len(codec_log)]

\* the caller has decoded two bytes, one after the other, as the AddFloat arm of
\* Cpu::execute does with its two source registers
DecodedTwo ==
    /\ Len(codec_log) >= 2
    /\ LastCall.call = "decode"
    /\ codec_log[Len(codec_log) - 1].call = "decode"

\* what the next decode is given: any byte, the byte the last encode returned, or after
\* a first decode any second byte
DecodeArgs ==
    IF codec_log = <<>> THEN 0..255
    ELSE IF LastCall.call = "encode" THEN {LastCall.ret}
    ELSE IF Len(codec_log) = 1 THEN 0..255
    ELSE {}

\* what the next encode is given: any value, the value the last decode returned, or
\* after two decodes their sum, f1 + f2 of the AddFloat arm
EncodeArgs ==
    IF codec_log = <<>> THEN EncodeValues
    ELSE IF DecodedTwo THEN {codec_log[Len(codec_log) - 1].ret + LastCall.ret}
    ELSE IF LastCall.call = "decode" THEN {LastCall.ret}
    ELSE {}

\* the builds an encode of value can run under: they differ only when i8::abs overflows
EncodeBuilds(value) ==
    IF overflow_checks # "open" THEN {overflow_checks = "on"}
    ELSE IF as_i8(value) = -128 THEN BOOLEAN
    ELSE {FALSE}

EncodeBuildAfter(value, checks) ==
    IF overflow_checks = "open" /\ as_i8(value) = -128
    THEN IF checks THEN "on" ELSE "off"
    ELSE overflow_checks

\* the caller calls Floating { value: b }.decode()
CallDecode ==
    /\ lastOp = "new"
    /\ panicked = "none"
    /\ Len(codec_log) < MaxCodecCalls
    /\ \E b \in DecodeArgs :
          codec_log' = Append(codec_log, [call |-> "decode", arg |-> b, ret |-> Floating_decode(b)])
    /\ UNCHANGED <<cpuVars, overflow_checks, panicked, mode, r, lastOp, init_program, opcode, ret,
                   cycleRet, pre, runPre, runCycles, steps, jumps, rendered, tuiVars>>

\* the caller calls Floating::encode(v) and keeps the value field of what it returns
CallEncode ==
    /\ lastOp = "new"
    /\ panicked = "none"
    /\ Len(codec_log) < MaxCodecCalls
    /\ \E v \in EncodeArgs :
          \E checks \in EncodeBuilds(v) :
              \E res \in {Floating_encode(v, checks)} :
                  /\ codec_log' = Append(codec_log, [call |-> "encode", arg |-> v, ret |-> res.value])
                  /\ panicked' = res.panic
                  /\ overflow_checks' = EncodeBuildAfter(v, checks)
    /\ UNCHANGED <<cpuVars, mode, r, lastOp, init_program, opcode, ret, cycleRet, pre, runPre,
                   runCycles, steps, jumps, rendered, tuiVars>>

CodecNext == CallDecode \/ CallEncode

CodecSpec == ApiInit /\ [][CodecNext]_vars

----------------------------------------------------------------------------
(* volerup: update.rs and model.rs.  The lines of the program text are a    *)
(* sequence of texts.                                                        *)

\* char::is_whitespace, on the characters in use
is_whitespace(ch) == ch = " "

\* one character of str::split_whitespace: p is [done, cur], the tokens read and the
\* token being read
split_step(p, ch) ==
    IF is_whitespace(ch)
    THEN IF p.cur = <<>> THEN p ELSE [done |-> Append(p.done, p.cur), cur |-> <<>>]
    ELSE [p EXCEPT !.cur = Append(p.cur, ch)]

split_end(p) == IF p.cur = <<>> THEN p.done ELSE Append(p.done, p.cur)

\* str::split_whitespace: the maximal runs of characters that are no whitespace
split_whitespace(line) ==
    LET f[i \in 0..Len(line)] ==
            IF i = 0 THEN [done |-> <<>>, cur |-> <<>>] ELSE split_step(f[i - 1], line[i])
    IN  split_end(f[Len(line)])

\* str::trim: the text without its leading and trailing whitespace
trim(t) ==
    LET inner == {i \in 1..Len(t) : ~is_whitespace(t[i])}
    IN  IF inner = {} THEN <<>>
        ELSE SubSeq(t, CHOOSE i \in inner : \A j \in inner : i <= j,
                       CHOOSE i \in inner : \A j \in inner : j <= i)

\* t starts with k repetitions of pat
starts_with_repeated(t, pat, k) ==
    /\ k * Len(pat) <= Len(t)
    /\ \A j \in 1..(k * Len(pat)) : t[j] = pat[((j - 1) % Len(pat)) + 1]

\* str::trim_start_matches: the text without its leading repetitions of pat
trim_start_matches(t, pat) ==
    LET k == CHOOSE n \in 0..Len(t) :
                 starts_with_repeated(t, pat, n) /\ ~starts_with_repeated(t, pat, n + 1)
    IN  SubSeq(t, k * Len(pat) + 1, Len(t))

\* a faulty radix_step: a value that does not fit a u8 wraps
radix_step_wraps(acc, d) ==
    IF acc = -1 \/ d = -1 THEN -1
    ELSE (acc * 16 + d) % 256

\* one digit of u8::from_str_radix(_, 16): acc is the value so far, -1 after a
\* character that is no digit, 256 after an overflow
radix_step(acc, d) ==
    IF acc = -1 \/ d = -1 THEN -1
    ELSE IF acc * 16 + d > 255 THEN 256
    ELSE acc * 16 + d

\* u8::from_str_radix(_, 16) on the digits that follow the sign
radix_digits(digits) ==
    LET f[i \in 0..Len(digits)] ==
            IF i = 0 THEN 0 ELSE radix_step(f[i - 1], to_digit(digits[i]))
    IN  f[Len(digits)]

\* the end of u8::from_str_radix: Ok(value) or Err
radix_result(v) == IF v = -1 \/ v = 256 THEN [ok |-> FALSE, value |-> 0] ELSE [ok |-> TRUE, value |-> v]

\* u8::from_str_radix(t, 16): an optional "+", then one or more hex digits of a value
\* that fits a u8
from_str_radix(t) ==
    IF t = <<>> \/ t = <<"+">> \/ t = <<"-">> THEN [ok |-> FALSE, value |-> 0]
    ELSE radix_result(radix_digits(IF t[1] = "+" THEN Tail(t) ELSE t))

\* parse_single of parse_program_text
parse_single(t) ==
    from_str_radix(trim_start_matches(trim_start_matches(trim(t), <<"0", "x">>), <<"0", "X">>))

\* the tokens of all lines, in order
all_tokens(lines) ==
    LET f[i \in 0..Len(lines)] ==
            IF i = 0 THEN <<>> ELSE f[i - 1] \o split_whitespace(lines[i])
    IN  f[Len(lines)]

\* the end of parse_program_text: Err if any token failed, else the bytes
parse_collect(results) ==
    IF \E i \in 1..Len(results) : ~results[i].ok
    THEN [ok |-> FALSE, bytes |-> <<>>]
    ELSE [ok |-> TRUE, bytes |-> [i \in 1..Len(results) |-> results[i].value]]

\* parse_single applied to every token
parse_tokens(tokens) == [i \in 1..Len(tokens) |-> parse_single(tokens[i])]

\* parse_program_text: [ok, bytes]
parse_program_text(lines) == parse_collect(parse_tokens(all_tokens(lines)))

\* str::lines: the text cut at every "\n", without a last empty line
str_lines(text) ==
    LET breaks == {i \in 1..Len(text) : text[i] = "\n"}
        count == Cardinality(breaks)
            + (IF text # <<>> /\ text[Len(text)] # "\n" THEN 1 ELSE 0)
        break_at(k) ==
            IF k = 0 THEN 0
            ELSE IF k > Cardinality(breaks) THEN Len(text) + 1
            ELSE CHOOSE i \in breaks : Cardinality({j \in breaks : j <= i}) = k
    IN  [k \in 1..count |-> SubSeq(text, break_at(k - 1) + 1, break_at(k) - 1)]

\* the program text Model::init writes: one line per chunk of two bytes
init_program_text(program) ==
    [i \in 1..((Len(program) + 1) \div 2) |->
        IF 2 * i <= Len(program)
        THEN <<"0", "x">> \o fmt_02X(program[2 * i - 1]) \o fmt_02X(program[2 * i])
        ELSE <<"0", "x">> \o fmt_02X(program[2 * i - 1])]

\* Model::init: [ok, panic, cpu, program_textarea, parsed]
Model_init(program) ==
    [ok |-> TRUE, panic |-> Cpu_init(program).panic, cpu |-> Cpu_init(program).cpu,
     program_textarea |-> init_program_text(program),
     parsed |-> [ok |-> TRUE, bytes |-> <<>>]]

\* Model::default
Model_default == Model_init(<<20, 2, 52, 23, 192, 0>>)

\* the end of Model::init_from_source: the match on the parsed program
init_from_parsed(lines, program) ==
    IF program.ok
    THEN [ok |-> TRUE, panic |-> Cpu_init(program.bytes).panic, cpu |-> Cpu_init(program.bytes).cpu,
          program_textarea |-> lines, parsed |-> program]
    ELSE [ok |-> FALSE, panic |-> "none", cpu |-> Cpu_new, program_textarea |-> lines,
          parsed |-> program]

\* Model::init_from_source
init_from_source(program_text) ==
    init_from_parsed(str_lines(program_text), parse_program_text(str_lines(program_text)))

\* a text of 16 lines of 16 one-digit tokens, the last line ending in a space: a
\* program that fills the memory
FullMemoryText ==
    [i \in 1..512 |->
        IF i = 512 THEN " " ELSE IF i % 32 = 0 THEN "\n" ELSE IF i % 2 = 1 THEN "C" ELSE " "]

\* the files volerup is started with
SourceTexts ==
    { <<"0", "x", "2", "1", " ", "0", "x", "0", "5", "\n", "0", "x", "C", "0", " ", "0", "x", "0", "0">>,
      <<"F", "F">>,
      <<"0", "X", "1", "f", " ", "0", "x", "0", "X", "0", "0", "7", "\n", " ", "\n",
        "0", "x", "0", "x", "C", "0", " ", "+", "7", "\n">>,
      FullMemoryText }

\* the keys the program text is given: characters and Backspace
Keys == {"0", "x", "Backspace"}

\* TextArea::input with the cursor at the end of the text: a character is added to the
\* last line, Backspace takes the last character, or the last line if it is empty and
\* not the only one
TextArea_input(lines, key) ==
    LET n == Len(lines)
    IN  IF key = "Backspace"
             THEN IF lines[n] # <<>>
                  THEN [lines EXCEPT ![n] = SubSeq(lines[n], 1, Len(lines[n]) - 1)]
                  ELSE IF n > 1 THEN SubSeq(lines, 1, n - 1) ELSE lines
        ELSE [lines EXCEPT ![n] = Append(lines[n], key)]

\* where the two scrolled panes stand when the session is taken up: at the top, as
\* Model::init leaves them, or all the way down, where 16 and 256 ScrollDown messages
\* bring them; [registers_scroll, memory_scroll]
ScrollStarts ==
    { [registers_scroll |-> 0, memory_scroll |-> 0],
      [registers_scroll |-> 16, memory_scroll |-> 256] }

\* main: the Model is Model::default() or, with a file given, Model::init_from_source
\* of its text, which has to parse
TuiInit ==
    \E m \in {Model_default} \cup {init_from_source(t) : t \in SourceTexts} :
      \E at \in ScrollStarts :
        /\ m.ok
        /\ m.panic = "none"
        /\ registers = m.cpu.registers
        /\ memory = m.cpu.memory
        /\ program_counter = m.cpu.program_counter
        /\ instruction_register = m.cpu.instruction_register
        /\ cycle = m.cpu.cycle
        /\ halted = m.cpu.halted
        /\ overflow_checks = "open"
        /\ panicked = "none"
        /\ mode = "idle"
        /\ r = TRUE
        /\ lastOp = "init"
        /\ init_program = m.parsed.bytes
        /\ opcode = [code |-> "None"]
        /\ ret = TRUE
        /\ cycleRet = TRUE
        /\ pre = m.cpu
        /\ runPre = m.cpu
        /\ runCycles = 0
        /\ steps = 0
        /\ jumps = 0
        /\ codec_log = <<>>
        /\ rendered = <<>>
        /\ program_textarea = m.program_textarea
        /\ error_msg = "None"
        /\ running = TRUE
        /\ focus = "Memory"
        /\ parsed = m.parsed
        /\ msg = "None"
        /\ edits = 0
        /\ memory_scroll = at.memory_scroll
        /\ registers_scroll = at.registers_scroll
        /\ handled = 0
        /\ focus_log = <<>>

\* the loop of main takes another message: while model.running, and no panic so far
Handling == running /\ panicked = "none" /\ handled < MaxMsgs

\* the focus messages handled in a row, with one more: the last three are kept
focus_logged(m) ==
    LET l == Append(focus_log, [msg |-> m, focus |-> focus])
    IN  IF Len(l) > 3 THEN Tail(l) ELSE l

\* update(model, Msg::Exit)
MsgExit ==
    /\ Handling
    /\ running' = FALSE
    /\ msg' = "Exit"
    /\ handled' = handled + 1
    /\ pre' = Cpu
    /\ focus_log' = <<>>
    /\ UNCHANGED <<cpuVars, overflow_checks, panicked, lastOp, init_program, cycleRet, steps,
                   jumps, program_textarea, error_msg, focus, parsed, edits, memory_scroll,
                   registers_scroll, callerVars>>

\* the Msg::Load arm of update: what it parsed, the error_msg it leaves, and the
\* Cpu::init it calls if the text parsed
update_Load(lines, c) ==
    LET input == parse_program_text(lines)
    IN  [parsed |-> input,
         error_msg |-> IF input.ok THEN "None" ELSE "only byte values in hex notation allowed",
         init |-> IF input.ok THEN Cpu_init(input.bytes) ELSE Ok(c), loaded |-> input.ok]

\* update(model, Msg::Load); a panic of Cpu::init ends the process after error_msg was
\* cleared and before model.cpu is assigned
MsgLoad ==
    /\ Handling
    /\ \E u \in {update_Load(program_textarea, Cpu)} :
          /\ parsed' = u.parsed
          /\ error_msg' = u.error_msg
          /\ panicked' = u.init.panic
          /\ IF u.init.panic = "none" THEN SetCpu(u.init.cpu) ELSE UNCHANGED cpuVars
          /\ lastOp' = IF u.loaded THEN "init" ELSE lastOp
          /\ init_program' = IF u.loaded THEN u.parsed.bytes ELSE init_program
    /\ msg' = "Load"
    /\ handled' = handled + 1
    /\ pre' = Cpu
    /\ focus_log' = <<>>
    /\ UNCHANGED <<overflow_checks, cycleRet, steps, jumps, program_textarea, running, focus,
                   edits, memory_scroll, registers_scroll, callerVars>>

\* a faulty cycle_wanted: cycle() is called on a halted Cpu too
cycle_wanted_always(c) == TRUE

\* the Msg::Cycle arm of update: whether it calls cycle()
cycle_wanted(c) == ~c.halted

\* update(model, Msg::Cycle): cycle() is called only if the Cpu has not halted
MsgCycle ==
    /\ Handling
    /\ cycle_wanted(Cpu) => steps < MaxSteps
    /\ IF cycle_wanted(Cpu)
       THEN /\ \E checks \in Builds :
                  \E res \in {Cpu_cycle(Cpu, checks)} :
                      /\ SetCpu(res.cpu)
                      /\ panicked' = res.panic
                      /\ cycleRet' = IF res.panic = "none" THEN res.ret ELSE cycleRet
                      /\ overflow_checks' = BuildAfter(checks)
                      /\ jumps' = jumps_after(res)
            /\ lastOp' = "cycle"
            /\ steps' = steps + 1
       ELSE UNCHANGED <<cpuVars, panicked, cycleRet, overflow_checks, lastOp, steps, jumps>>
    /\ msg' = "Cycle"
    /\ handled' = handled + 1
    /\ pre' = Cpu
    /\ focus_log' = <<>>
    /\ UNCHANGED <<init_program, program_textarea, error_msg, running, focus, parsed, edits,
                   memory_scroll, registers_scroll, callerVars>>

\* the Msg::FocusNext arm of update
focus_next(f) ==
    CASE f = "Registers" -> "Memory"
      [] f = "Memory" -> "Program"
      [] f = "Program" -> "Registers"

\* a faulty focus_previous: from Registers it goes where FocusNext goes
focus_previous_forward(f) ==
    CASE f = "Registers" -> "Memory"
      [] f = "Memory" -> "Registers"
      [] f = "Program" -> "Memory"

\* the Msg::FocusPrevious arm of update
focus_previous(f) ==
    CASE f = "Registers" -> "Program"
      [] f = "Memory" -> "Registers"
      [] f = "Program" -> "Memory"

\* update(model, Msg::FocusNext)
MsgFocusNext ==
    /\ Handling
    /\ focus' = focus_next(focus)
    /\ msg' = "FocusNext"
    /\ handled' = handled + 1
    /\ pre' = Cpu
    /\ focus_log' = focus_logged("FocusNext")
    /\ UNCHANGED <<cpuVars, overflow_checks, panicked, lastOp, init_program, cycleRet, steps,
                   jumps, program_textarea, error_msg, running, parsed, edits, memory_scroll,
                   registers_scroll, callerVars>>

\* update(model, Msg::FocusPrevious)
MsgFocusPrevious ==
    /\ Handling
    /\ focus' = focus_previous(focus)
    /\ msg' = "FocusPrevious"
    /\ handled' = handled + 1
    /\ pre' = Cpu
    /\ focus_log' = focus_logged("FocusPrevious")
    /\ UNCHANGED <<cpuVars, overflow_checks, panicked, lastOp, init_program, cycleRet, steps,
                   jumps, program_textarea, error_msg, running, parsed, edits, memory_scroll,
                   registers_scroll, callerVars>>

\* usize::saturating_sub
saturating_sub(a, b) == IF a < b THEN 0 ELSE a - b

\* usize::saturating_add of a scroll position and 1: usize::MAX is out of its reach
saturating_add(a, b) == a + b

\* the Msg::ScrollUp arm of update: [registers_scroll, memory_scroll]
update_ScrollUp(f, rs, ms) ==
    CASE f = "Registers" -> [registers_scroll |-> saturating_sub(rs, 1), memory_scroll |-> ms]
      [] f = "Memory" -> [registers_scroll |-> rs, memory_scroll |-> saturating_sub(ms, 1)]
      [] OTHER -> [registers_scroll |-> rs, memory_scroll |-> ms]

\* a faulty update_ScrollDown: the arms have no guards
update_ScrollDown_unguarded(f, rs, ms, c) ==
    CASE f = "Registers" -> [registers_scroll |-> saturating_add(rs, 1), memory_scroll |-> ms]
      [] f = "Memory" -> [registers_scroll |-> rs, memory_scroll |-> saturating_add(ms, 1)]
      [] OTHER -> [registers_scroll |-> rs, memory_scroll |-> ms]

\* the Msg::ScrollDown arm of update: [registers_scroll, memory_scroll]; registers.len()
\* is 16 and memory.len() is 256
update_ScrollDown(f, rs, ms, c) ==
    CASE f = "Registers" /\ rs < Cardinality(DOMAIN c.registers) ->
              [registers_scroll |-> saturating_add(rs, 1), memory_scroll |-> ms]
      [] f = "Memory" /\ ms < Cardinality(DOMAIN c.memory) ->
              [registers_scroll |-> rs, memory_scroll |-> saturating_add(ms, 1)]
      [] OTHER -> [registers_scroll |-> rs, memory_scroll |-> ms]

\* update(model, Msg::ScrollUp)
MsgScrollUp ==
    /\ Handling
    /\ \E u \in {update_ScrollUp(focus, registers_scroll, memory_scroll)} :
          /\ registers_scroll' = u.registers_scroll
          /\ memory_scroll' = u.memory_scroll
    /\ msg' = "ScrollUp"
    /\ handled' = handled + 1
    /\ pre' = Cpu
    /\ focus_log' = <<>>
    /\ UNCHANGED <<cpuVars, overflow_checks, panicked, lastOp, init_program, cycleRet, steps,
                   jumps, program_textarea, error_msg, running, focus, parsed, edits,
                   callerVars>>

\* update(model, Msg::ScrollDown)
MsgScrollDown ==
    /\ Handling
    /\ \E u \in {update_ScrollDown(focus, registers_scroll, memory_scroll, Cpu)} :
          /\ registers_scroll' = u.registers_scroll
          /\ memory_scroll' = u.memory_scroll
    /\ msg' = "ScrollDown"
    /\ handled' = handled + 1
    /\ pre' = Cpu
    /\ focus_log' = <<>>
    /\ UNCHANGED <<cpuVars, overflow_checks, panicked, lastOp, init_program, cycleRet, steps,
                   jumps, program_textarea, error_msg, running, focus, parsed, edits,
                   callerVars>>

\* a faulty update_KeyInput: the key goes to the text whatever the focus
update_KeyInput_unguarded(f, lines, key) == TextArea_input(lines, key)

\* the Msg::KeyInput arm of update, and the arm for all else: the lines of the text
update_KeyInput(f, lines, key) ==
    IF f = "Program" THEN TextArea_input(lines, key) ELSE lines

\* update(model, Msg::KeyInput { key })
MsgKeyInput ==
    /\ Handling
    /\ edits < MaxEdits
    /\ \E key \in Keys : program_textarea' = update_KeyInput(focus, program_textarea, key)
    /\ edits' = edits + 1
    /\ msg' = "KeyInput"
    /\ handled' = handled + 1
    /\ pre' = Cpu
    /\ focus_log' = <<>>
    /\ UNCHANGED <<cpuVars, overflow_checks, panicked, lastOp, init_program, cycleRet, steps,
                   jumps, error_msg, running, focus, parsed, memory_scroll, registers_scroll,
                   callerVars>>

TuiNext ==
    \/ MsgExit
    \/ MsgLoad
    \/ MsgCycle
    \/ MsgFocusNext
    \/ MsgFocusPrevious
    \/ MsgScrollUp
    \/ MsgScrollDown
    \/ MsgKeyInput

TuiSpec == TuiInit /\ [][TuiNext]_vars

----------------------------------------------------------------------------
(* What the last cycle() did.  Once a cycle() has been called (steps > 0),   *)
(* pre is the Cpu it was entered with, the Cpu variables are what it left,   *)
(* and cycleRet is what it returned: Run and RunReturn change no Cpu field.  *)

\* the last cycle() returned (it did not panic)
CycleReturned == steps > 0 /\ panicked = "none"

\* the last cycle() got past fetch, so instruction_register is what it fetched
CycleFetched == steps > 0 /\ panicked # "index out of bounds"

OpcodeNibble == instruction_register \div 4096
OperandR == (instruction_register \div 256) % 16
OperandXY == instruction_register % 256

OperandS == (instruction_register \div 16) % 16
OperandT == instruction_register % 16

\* the last cycle() executed a JUMP whose registers differed
JumpNotTaken ==
    /\ CycleReturned
    /\ OpcodeNibble = 11
    /\ pre.registers[0] # pre.registers[OperandR]

\* the last run() has returned
RunReturned == lastOp = "run" /\ mode = "idle" /\ panicked = "none"

\* the last call was execute(), of the OpCode that decode() gives for the instruction in
\* instruction_register, whose top nibble is n; execute() leaves instruction_register alone
ExecutedInstruction(n) ==
    /\ lastOp = "execute"
    /\ OpcodeNibble = n
    /\ opcode = decode(pre)

\* x with its 8 bits moved k places to the right, those that leave coming back on the left
CircularRight(x, k) ==
    LET f[i \in 0..8] == IF i = 8 THEN 0 ELSE Bit(x, (i + k) % 8) * (2^i) + f[i + 1]
    IN  f[0]

----------------------------------------------------------------------------
(* The claims *)

\* C1: when the fetched instruction's top nibble is outside 0x1..0xC, cycle()
\* returns false, sets halted, leaves the cycle count, program_counter, all
\* registers and all memory cells unchanged, and leaves the offending
\* instruction in instruction_register.
C1_IllegalInstructionHalts ==
    (CycleReturned /\ OpcodeNibble \notin 1..12) =>
        /\ cycleRet = FALSE
        /\ halted = TRUE
        /\ cycle = pre.cycle
        /\ program_counter = pre.program_counter
        /\ registers = pre.registers
        /\ memory = pre.memory
        /\ instruction_register =
              pre.memory[pre.program_counter] * 256 + pre.memory[pre.program_counter + 1]

\* C1 witness: a running machine that had already counted a cycle fetched 0xD302
C1_Witness ==
    /\ CycleReturned
    /\ instruction_register = 54018
    /\ ~pre.halted
    /\ pre.cycle # U32(0)
    /\ halted
    /\ cycleRet = FALSE

\* C2: every cycle() that decodes a legal opcode returns true and increases the
\* cycle count by exactly 1 modulo 2^32.
C2_LegalCycleReturnsTrueAndCounts ==
    (CycleFetched /\ OpcodeNibble \in 1..12) =>
        /\ panicked = "none"
        /\ cycleRet = TRUE
        /\ cycle = IF pre.cycle = [hi |-> 65535, lo |-> 65535] THEN U32(0)
                   ELSE IF pre.cycle.lo = 65535 THEN [hi |-> pre.cycle.hi + 1, lo |-> 0]
                   ELSE [hi |-> pre.cycle.hi, lo |-> pre.cycle.lo + 1]

\* C3: run() started on a machine that is not halted returns only when halted is
\* true, and returns what its last cycle returned: true if that cycle executed
\* HALT, false if it met an illegal instruction.
C3_RunReturnsLastCycle ==
    (RunReturned /\ ~runPre.halted) =>
        /\ halted
        /\ runCycles >= 1
        /\ ret = cycleRet
        /\ (ret = TRUE <=> OpcodeNibble = 12)
        /\ (ret = FALSE <=> OpcodeNibble \notin 1..12)

\* C3 witness: a run() of several cycles that ended on an illegal instruction
C3_Witness ==
    /\ RunReturned
    /\ ~runPre.halted
    /\ runCycles >= 2
    /\ ret = FALSE
    /\ halted

\* C4: run() on a machine that is already halted performs no cycle, returns
\* true and leaves every field of the machine unchanged.
C4_RunOnHaltedIsNoOp ==
    (RunReturned /\ runPre.halted) =>
        /\ runCycles = 0
        /\ ret = TRUE
        /\ Cpu = runPre

\* C4 witness: run() returned on a machine an illegal instruction had halted
C4_Witness ==
    /\ RunReturned
    /\ runPre.halted
    /\ OpcodeNibble \notin 1..12
    /\ cycleRet = FALSE
    /\ ret = TRUE

\* C5: a cycle() call on a halted machine changes none of registers, memory,
\* program_counter, instruction_register and the cycle count.
C5_NoCycleOnceHalted ==
    (steps > 0 /\ pre.halted) =>
        /\ registers = pre.registers
        /\ memory = pre.memory
        /\ program_counter = pre.program_counter
        /\ instruction_register = pre.instruction_register
        /\ cycle = pre.cycle

\* C6: no operation of the engine changes halted from true back to false.
C6_HaltedIsTerminal ==
    /\ (steps > 0 /\ pre.halted) => halted
    /\ (lastOp = "run" /\ runPre.halted) => halted

\* C6 witness: a cycle() on a halted machine executed HALT once more
C6_Witness ==
    /\ CycleReturned
    /\ pre.halted
    /\ OpcodeNibble = 12
    /\ cycleRet = TRUE
    /\ halted

\* C7: execute of every opcode other than JUMP increases program_counter by
\* exactly 2.
C7_NonJumpAdvancesByTwo ==
    (CycleFetched /\ OpcodeNibble \in (1..12) \ {11}) =>
        program_counter = pre.program_counter + 2

C9_TakenJumpGoesToOperand ==
    (CycleReturned /\ OpcodeNibble = 11 /\ pre.registers[0] = pre.registers[OperandR]) =>
        program_counter = OperandXY

\* C10: in every state reachable from init by cycle() and run() calls,
\* program_counter is a valid memory index in 0..255.
C10_ProgramCounterInMemory == program_counter \in 0..255

C12_FetchPacksHighByteFirst ==
    (lastOp = "fetch" /\ pre.program_counter <= 254) =>
        /\ panicked = "none"
        /\ instruction_register =
              pre.memory[pre.program_counter] * 256 + pre.memory[pre.program_counter + 1]
        /\ registers = pre.registers
        /\ memory = pre.memory
        /\ program_counter = pre.program_counter
        /\ cycle = pre.cycle
        /\ halted = pre.halted

\* C12 witness: a fetch at address 2 of the byte 0xC0 that a STORE had put there
\* after init had left the cell 0
C12_Witness ==
    /\ lastOp = "fetch"
    /\ init_program = <<49, 2>>
    /\ pre.program_counter = 2
    /\ pre.memory[2] = 192
    /\ instruction_register = 49152

\* C13: decode() returns none exactly when the top 4 bits of
\* instruction_register are outside 0x1..0xC; otherwise it returns the opcode the
\* encoding table gives for that nibble, with R = bits 11-8, S = bits 7-4,
\* T = bits 3-0 and addr/value = bits 7-0; decode() changes no field of the Cpu.
C13_DecodeFollowsEncodingTable ==
    lastOp = "decode" =>
        /\ Cpu = pre
        /\ panicked = "none"
        /\ opcode.code = "None" <=> OpcodeNibble \notin 1..12
        /\ OpcodeNibble = 1 =>
              opcode = [code |-> "LoadAddr", reg |-> OperandR, addr |-> OperandXY]
        /\ OpcodeNibble = 2 =>
              opcode = [code |-> "LoadValue", reg |-> OperandR, value |-> OperandXY]
        /\ OpcodeNibble = 3 =>
              opcode = [code |-> "Store", reg |-> OperandR, addr |-> OperandXY]
        /\ OpcodeNibble = 4 =>
              opcode = [code |-> "Move", source_reg |-> OperandS, target_reg |-> OperandT]
        /\ OpcodeNibble = 5 =>
              opcode = [code |-> "AddInt", target_reg |-> OperandR, reg1 |-> OperandS,
                        reg2 |-> OperandT]
        /\ OpcodeNibble = 6 =>
              opcode = [code |-> "AddFloat", target_reg |-> OperandR, reg1 |-> OperandS,
                        reg2 |-> OperandT]
        /\ OpcodeNibble = 7 =>
              opcode = [code |-> "Or", target_reg |-> OperandR, reg1 |-> OperandS,
                        reg2 |-> OperandT]
        /\ OpcodeNibble = 8 =>
              opcode = [code |-> "And", target_reg |-> OperandR, reg1 |-> OperandS,
                        reg2 |-> OperandT]
        /\ OpcodeNibble = 9 =>
              opcode = [code |-> "Xor", target_reg |-> OperandR, reg1 |-> OperandS,
                        reg2 |-> OperandT]
        /\ OpcodeNibble = 10 => opcode = [code |-> "Rotate", reg |-> OperandR, times |-> OperandT]
        /\ OpcodeNibble = 11 => opcode = [code |-> "Jump", reg |-> OperandR, addr |-> OperandXY]
        /\ OpcodeNibble = 12 => opcode = [code |-> "Halt"]

\* C13 witness: decode() of the fetched 0x1234 gave LOADADDR reg 0x2 addr 0x34
C13_Witness ==
    /\ lastOp = "decode"
    /\ instruction_register = 4660
    /\ opcode = [code |-> "LoadAddr", reg |-> 2, addr |-> 52]

\* C14: for every program of length n <= 256, Cpu::init(program) gives a machine
\* with memory[i] = program[i] for i < n and memory[i] = 0 for n <= i < 256, all
\* 16 registers 0, program_counter 0, instruction_register 0, cycle count 0 and
\* halted false.
C14_InitCopiesProgram ==
    (lastOp = "init" /\ Len(init_program) <= 256) =>
        /\ panicked = "none"
        /\ \A i \in 0..255 :
              memory[i] = IF i < Len(init_program) THEN init_program[i + 1] ELSE 0
        /\ \A i \in 0..15 : registers[i] = 0
        /\ program_counter = 0
        /\ instruction_register = 0
        /\ cycle = U32(0)
        /\ halted = FALSE

\* C14 witness: init of a program of exactly 256 bytes, the last of them not 0
C14_Witness ==
    /\ lastOp = "init"
    /\ Len(init_program) = 256
    /\ panicked = "none"
    /\ memory[0] = 192
    /\ memory[255] = 7

\* C15: Cpu::init with a program longer than 256 bytes fails with an error
\* returned to the caller and produces no machine; the failure affects only that
\* call: the caller goes on running with the Cpu it had.
C15_OversizedInitIsReturned ==
    (lastOp = "init" /\ Len(init_program) > 256) =>
        /\ panicked = "none"
        /\ Cpu = pre

\* C16: ADDINT R,S,T sets registers[R] = (registers[S] + registers[T]) mod 256
\* for all register values, sums of 256 or more wrapping without any failure;
\* no other register and no memory cell changes.
C16_AddIntWraps ==
    ExecutedInstruction(5) =>
        /\ panicked = "none"
        /\ registers = [pre.registers EXCEPT
                           ![OperandR] = (pre.registers[OperandS] + pre.registers[OperandT]) % 256]
        /\ memory = pre.memory

\* C17: ROTATE R,X sets registers[R] to the 8 bit circular right rotation of its
\* old value by X mod 8, for every X in 0..15; bits 7-4 of the instruction are
\* ignored, and no other register and no memory cell changes.
C17_RotateIsCircularModEight ==
    ExecutedInstruction(10) =>
        /\ panicked = "none"
        /\ registers = [pre.registers EXCEPT
                           ![OperandR] = CircularRight(pre.registers[OperandR], OperandT % 8)]
        /\ memory = pre.memory
        /\ OperandT \in {0, 8} => registers = pre.registers

\* C17 witness: 0xA1FB, ROTATE r1 by 11 with bits 7-4 set, turned 0x07 into 0xE0
C17_Witness ==
    /\ ExecutedInstruction(10)
    /\ instruction_register = 41467
    /\ pre.registers[1] = 7
    /\ registers[1] = 224

C19_LoadsAndMoveSetOneRegister ==
    /\ ExecutedInstruction(1) =>
          /\ panicked = "none"
          /\ registers = [pre.registers EXCEPT ![OperandR] = pre.memory[OperandXY]]
          /\ memory = pre.memory
    /\ ExecutedInstruction(2) =>
          /\ panicked = "none"
          /\ registers = [pre.registers EXCEPT ![OperandR] = OperandXY]
          /\ memory = pre.memory
    /\ ExecutedInstruction(4) =>
          /\ panicked = "none"
          /\ registers = [pre.registers EXCEPT ![OperandT] = pre.registers[OperandS]]
          /\ memory = pre.memory

\* C19 witness: 0x4F21, MOVE r1 <- r2 with bits 11-8 set, copied 0x05 over 0x03
C19_Witness ==
    /\ ExecutedInstruction(4)
    /\ instruction_register = 20257
    /\ pre.registers[1] = 3
    /\ pre.registers[2] = 5
    /\ registers[1] = 5
    /\ registers[15] = 0

\* C20: STORE R,addr sets memory[addr] = registers[R] for every addr in 0..255,
\* addresses that hold program bytes included, and changes no register and no
\* other memory cell.
C20_StoreSetsOneCell ==
    ExecutedInstruction(3) =>
        /\ panicked = "none"
        /\ memory = [pre.memory EXCEPT ![OperandXY] = pre.registers[OperandR]]
        /\ registers = pre.registers

\* C20 witness: 0x3100 put r1 = 0xC0 over its own first byte at address 0
C20_Witness ==
    /\ ExecutedInstruction(3)
    /\ instruction_register = 12544
    /\ pre.memory[0] = 49
    /\ pre.registers[1] = 192
    /\ memory[0] = 192

----------------------------------------------------------------------------
(* What the last codec call did *)

\* the last codec call was Floating::encode
Encoded == codec_log # <<>> /\ LastCall.call = "encode"

\* the last codec call was Floating::decode
Decoded == codec_log # <<>> /\ LastCall.call = "decode"

\* the fields of a packed byte, read off its bits
PackedSign(b) == b \div 128
PackedCode(b) == (b \div 16) % 8

\* the position of the leading 1 bit of v > 0
LeadingBit(v) == CHOOSE k \in 0..15 : 2^k <= v /\ v < 2^(k + 1)

\* C22: for every x = decode(b), decode(encode(x)) = x.
C22_RoundTripIsIdentity ==
    (Len(codec_log) >= 2 /\ codec_log[1].call = "decode" /\ codec_log[2].call = "encode") =>
        /\ panicked = "none"
        /\ Len(codec_log) = 3 => codec_log[3].ret = codec_log[1].ret

\* C23 as stated: encode of a value with a nonzero integer part and a fractional
\* magnitude below 0.03125 fails with an encoding error.
C23_SmallFractionWithIntegerFails ==
    (Encoded /\ AbsInt(LastCall.arg) >= 256 /\ AbsInt(LastCall.arg) % 256 < 8) =>
        panicked # "none"

\* C23, amended: encode of a value x with 1 <= |x| < 128 whose fractional magnitude is
\* below 0.03125 does not fail; it returns a packed byte whose exponent code is chosen
\* by the integer part alone: 0b101 for 1, 0b110 for 2 and 3, 0b111 from 4 on.
C23_SmallFractionWithIntegerEncodes ==
    (Encoded /\ AbsInt(LastCall.arg) >= 256 /\ AbsInt(LastCall.arg) < 128 * 256
             /\ AbsInt(LastCall.arg) % 256 < 8) =>
        /\ panicked = "none"
        /\ PackedCode(LastCall.ret) =
               (IF AbsInt(LastCall.arg) >= 4 * 256 THEN 7
                ELSE IF AbsInt(LastCall.arg) >= 2 * 256 THEN 6 ELSE 5)

\* C23 witness: encode(1.0) returned 0x58
C23_Witness ==
    /\ Encoded
    /\ LastCall.arg = 256
    /\ LastCall.ret = 88
    /\ panicked = "none"

\* C24: for every byte b, decode(b) = (-1)^bit7 * mantissa * 2^(e-4), with mantissa =
\* b & 0x0F and e = the code in bits 6-4, less 4; scaled by 256 that is mantissa * 2^code.
\* 0b01101011 decodes to 2.75, 0b00111100 to 0.375 and 0b10101011 to -0.171875.
C24_DecodeIsMantissaTimesPowerOfTwo ==
    Decoded =>
        /\ LastCall.ret = (IF PackedSign(LastCall.arg) = 1 THEN -1 ELSE 1)
                              * (LastCall.arg % 16) * 2^PackedCode(LastCall.arg)
        /\ LastCall.arg = 107 => LastCall.ret = 704
        /\ LastCall.arg = 60 => LastCall.ret = 96
        /\ LastCall.arg = 171 => LastCall.ret = -44

\* C24 witness: decode of 0b10101011 returned -0.171875
C24_Witness ==
    /\ Decoded
    /\ LastCall.arg = 171
    /\ LastCall.ret = -44

\* the exponent code the thresholds on |x| give, |x| scaled by 256
ThresholdCode(a) ==
    IF a >= 4 * 256 THEN 7
    ELSE IF a >= 2 * 256 THEN 6
    ELSE IF a >= 256 THEN 5
    ELSE IF a >= 128 THEN 4
    ELSE IF a >= 64 THEN 3
    ELSE IF a >= 32 THEN 2
    ELSE IF a >= 16 THEN 1
    ELSE 0

\* C25: encode(x) returns a byte whose exponent code is given by the first matching
\* threshold on |x| (integer part >= 4, >= 2, >= 1, then fraction >= 0.5, >= 0.25,
\* >= 0.125, >= 0.0625, else code 0) and whose sign bit is 1 exactly when x < 0.
C25_ExponentByThreshold ==
    Encoded =>
        /\ panicked = "none"
        /\ PackedCode(LastCall.ret) = ThresholdCode(AbsInt(LastCall.arg))
        /\ PackedSign(LastCall.ret) = (IF LastCall.arg < 0 THEN 1 ELSE 0)

\* C26: for 0.03125 <= |x| < 8, encode(x) = sign<<7 | code<<4 | mantissa, the mantissa
\* being the leading 1 bit of |x| and the three digits below it, and decode(encode(x))
\* is |x| cut off below those four digits.
C26_MantissaIsLeadingFourDigits ==
    \A i \in 1..Len(codec_log) :
        (codec_log[i].call = "encode" /\ AbsInt(codec_log[i].arg) >= 8
                                      /\ AbsInt(codec_log[i].arg) < 2048) =>
            \E k \in {LeadingBit(AbsInt(codec_log[i].arg)) - 3} :
                /\ panicked = "none"
                /\ codec_log[i].ret = (IF codec_log[i].arg < 0 THEN 128 ELSE 0) + k * 16
                                          + AbsInt(codec_log[i].arg) \div (2^k)
                /\ i < Len(codec_log) =>
                       AbsInt(codec_log[i + 1].ret) =
                           (AbsInt(codec_log[i].arg) \div (2^k)) * (2^k)

\* C27: between cycles, that is right after init and after every cycle() that returned
\* true, instruction_register holds the instruction stored at memory[program_counter],
\* memory[program_counter + 1], so decode() yields the instruction to run next.
C27_InstructionRegisterHoldsPending ==
    (/\ mode = "idle"
     /\ panicked = "none"
     /\ lastOp = "init" \/ (lastOp = "cycle" /\ cycleRet)
     /\ program_counter <= 254) =>
        /\ instruction_register = memory[program_counter] * 256 + memory[program_counter + 1]
        /\ decode(Cpu) = decode([Cpu EXCEPT !.instruction_register =
                                    memory[program_counter] * 256 + memory[program_counter + 1]])

----------------------------------------------------------------------------
(* What the last message did *)

\* the last message was Load: program_textarea is the text it parsed, parsed what
\* parse_program_text returned, pre the Cpu before the message
Loaded == msg = "Load"

\* the hex digits
HexChars == {UpperHex[d] : d \in 1..16} \cup {LowerHex[d] : d \in 1..16}

\* t is 0x or 0X followed by one or two hex digits
PrefixedByte(t) ==
    /\ Len(t) \in {3, 4}
    /\ t[1] = "0"
    /\ t[2] \in {"x", "X"}
    /\ \A k \in 3..Len(t) : t[k] \in HexChars

\* d is one or more hex digits of a value up to 0xFF: all but the last two are 0
ByteDigits(d) ==
    /\ d # <<>>
    /\ \A k \in 1..Len(d) : d[k] \in HexChars
    /\ \A k \in 1..(Len(d) - 2) : d[k] = "0"

\* the value of such digits: that of the last two
DigitsValue(d) ==
    IF Len(d) = 1 THEN to_digit(d[1])
    ELSE to_digit(d[Len(d) - 1]) * 16 + to_digit(d[Len(d)])

\* t is a repetitions of "0x", then b repetitions of "0X", then an optional "+", then
\* digits of a byte
SplitsAs(t, a, b) ==
    /\ 2 * a + 2 * b <= Len(t)
    /\ \A k \in 1..a : t[2 * k - 1] = "0" /\ t[2 * k] = "x"
    /\ \A k \in (a + 1)..(a + b) : t[2 * k - 1] = "0" /\ t[2 * k] = "X"
    /\ \/ ByteDigits(SubSeq(t, 2 * a + 2 * b + 1, Len(t)))
       \/ /\ 2 * a + 2 * b < Len(t)
          /\ t[2 * a + 2 * b + 1] = "+"
          /\ ByteDigits(SubSeq(t, 2 * a + 2 * b + 2, Len(t)))

\* t is a byte, with or without prefixes
ByteToken(t) == \E a \in 0..Len(t), b \in 0..Len(t) : SplitsAs(t, a, b)

\* the value of a byte token: that of the digits after the last character that is none
ByteTokenValue(t) ==
    LET others == {k \in 1..Len(t) : t[k] \in {"x", "X", "+"}}
        from == IF others = {} THEN 1 ELSE (CHOOSE k \in others : \A j \in others : j <= k) + 1
    IN  DigitsValue(SubSeq(t, from, Len(t)))

\* C28: update(Load) with a text that parses replaces model.cpu by Cpu::init of the
\* parsed bytes (halted false, cycle 0, program_counter 0, all registers 0) and clears
\* error_msg; with a text that does not parse it sets error_msg and leaves model.cpu as
\* it was.
C28_LoadInitsOrKeepsCpu ==
    Loaded =>
        IF parsed.ok
        THEN /\ panicked = "none"
             /\ Cpu = Cpu_init(parsed.bytes).cpu
             /\ ~halted
             /\ cycle = U32(0)
             /\ program_counter = 0
             /\ \A i \in 0..15 : registers[i] = 0
             /\ error_msg = "None"
        ELSE /\ panicked = "none"
             /\ error_msg # "None"
             /\ Cpu = pre

\* C29 as stated: parse_program_text succeeds exactly when every token is 0x or 0X
\* followed by one or two hex digits.
C29_ParseNeedsPrefixedTokens ==
    Loaded =>
        (parsed.ok <=>
            \A i \in 1..Len(all_tokens(program_textarea)) :
                PrefixedByte(all_tokens(program_textarea)[i]))

\* C29, amended: parse_program_text succeeds exactly when every whitespace-separated
\* token on every line is zero or more "0x", then zero or more "0X", then an optional
\* "+", then one or more hex digits of a value up to 0xFF; it then returns the bytes in
\* token order, line by line and left to right, blank lines giving nothing; if any token
\* is not of that form the whole parse fails and no bytes are returned.
C29_ParseAcceptsUnprefixedBytes ==
    Loaded =>
        \E tokens \in {all_tokens(program_textarea)} :
            /\ parsed.ok <=> \A i \in 1..Len(tokens) : ByteToken(tokens[i])
            /\ parsed.ok => parsed.bytes = [i \in 1..Len(tokens) |-> ByteTokenValue(tokens[i])]
            /\ ~parsed.ok => parsed.bytes = <<>>

\* C29 witness: Load of the lines "0X1f 0x0X007", " " and "0x0xC0 +7" parsed the bytes
\* 0x1F, 0x07, 0xC0, 0x07
C29_Witness ==
    /\ Loaded
    /\ Len(program_textarea) = 3
    /\ program_textarea[2] = <<" ">>
    /\ program_textarea[3] = <<"0", "x", "0", "x", "C", "0", " ", "+", "7">>
    /\ parsed = [ok |-> TRUE, bytes |-> <<31, 7, 192, 7>>]

----------------------------------------------------------------------------
(* What the last formatting wrote *)

\* the last call formatted the OpCode in opcode, and rendered is the text it wrote
Formatted == lastOp = "fmt"

\* the operands of an OpCode in the order the claim gives them
OperandsInOrder(op) ==
    CASE op.code \in {"LoadAddr", "Store", "Jump"} -> <<op.reg, op.addr>>
      [] op.code = "LoadValue" -> <<op.reg, op.value>>
      [] op.code = "Move" -> <<op.source_reg, op.target_reg>>
      [] op.code \in {"AddInt", "AddFloat", "Or", "And", "Xor"} -> <<op.target_reg, op.reg1, op.reg2>>
      [] op.code = "Rotate" -> <<op.reg, op.times>>
      [] op.code = "Halt" -> <<>>

\* w is 0x and exactly two upper case hex digits of value b
IsHexOperand(w, b) ==
    /\ Len(w) = 4
    /\ w[1] = "0"
    /\ w[2] = "x"
    /\ \E hi \in 1..16, lo \in 1..16 :
          w[3] = UpperHex[hi] /\ w[4] = UpperHex[lo] /\ (hi - 1) * 16 + (lo - 1) = b

\* C30: the Display text of a decoded opcode is the mnemonic and then its operands, each
\* as 0x and exactly two upper case hex digits, separated by single spaces: two operands
\* for LOADADDR, LOADVALUE, STORE, MOVE (source, target), ROTATE and JUMP, three (target,
\* reg1, reg2) for ADDINT, ADDFLOAT, OR, AND and XOR, none for HALT.
C30_DisplayIsMnemonicAndHexOperands ==
    Formatted =>
        \E words \in {split_whitespace(rendered)}, operands \in {OperandsInOrder(opcode)} :
            /\ Len(words) = 1 + Len(operands)
            /\ words[1] = Mnemonic(opcode.code)
            /\ \A i \in 1..Len(operands) : IsHexOperand(words[i + 1], operands[i])
            /\ Len(rendered) = Len(words[1]) + 5 * Len(operands)
            /\ Len(operands) = (IF opcode.code = "Halt" THEN 0
                                ELSE IF opcode.code \in {"AddInt", "AddFloat", "Or", "And", "Xor"}
                                     THEN 3 ELSE 2)

\* C30 witness: the OpCode decoded from 0x2FA1 was written as "LOADVALUE 0x0F 0xA1"
C30_Witness ==
    /\ Formatted
    /\ opcode = [code |-> "LoadValue", reg |-> 15, value |-> 161]
    /\ rendered = <<"L", "O", "A", "D", "V", "A", "L", "U", "E", " ", "0", "x", "0", "F",
                    " ", "0", "x", "A", "1">>

\* C31: a JUMP whose registers differ leaves registers, memory and
\* program_counter as they were and the machine not halted, and every step
\* after it keeps them so: a later cycle fetches and executes the same JUMP
\* and only adds to the cycle count, and a run() in progress does not return.
C31_FailedJumpLoopsForever ==
    [][ /\ JumpNotTaken' =>
              /\ registers' = pre'.registers
              /\ memory' = pre'.memory
              /\ program_counter' = pre'.program_counter
              /\ ~halted'
        /\ JumpNotTaken =>
              /\ JumpNotTaken'
              /\ instruction_register' = instruction_register
              /\ registers' = registers
              /\ memory' = memory
              /\ program_counter' = program_counter
              /\ cycle' \in {cycle, wrapping_add(cycle, 1)}
              /\ mode = "run" => mode' = "run" ]_vars

\* C32: while no JUMP has been executed since init, program_counter is twice the
\* number of cycles that executed an instruction, and a cycle() call ends in one
\* of three ways only: it executes an instruction, it halts the machine on an
\* illegal one, or it fails in the fetch at address 256. So at most 128 cycles
\* execute an instruction.
C32_StraightLineHaltsOrRunsOff ==
    jumps = 0 =>
        /\ cycle.hi = 0
        /\ program_counter = 2 * cycle.lo
        /\ program_counter <= 256
        /\ \/ panicked = "none"
           \/ panicked = "index out of bounds" /\ program_counter = 256

----------------------------------------------------------------------------
(* The messages of the front end.  msg is the message the last step handled, *)
(* pre the Cpu it found, and in a step msg' is the message being handled.    *)

\* the pane after f in the order Registers, Memory, Program, the first after the last
PaneAfter(f) ==
    LET order == <<"Registers", "Memory", "Program">>
        i == CHOOSE k \in 1..3 : order[k] = f
    IN  order[(i % 3) + 1]

\* the focus is back where it was before the last two focus messages if they were one
\* of each kind, and before the last three if they were all FocusNext
FocusRestored ==
    LET n == Len(focus_log)
    IN  /\ (n >= 2 /\ focus_log[n - 1].msg # focus_log[n].msg) => focus = focus_log[n - 1].focus
        /\ (n = 3 /\ \A i \in 1..3 : focus_log[i].msg = "FocusNext") => focus = focus_log[1].focus

\* C33: while the Cpu is halted no message but a Load whose text parses changes
\* registers, memory, program_counter, instruction_register, the cycle count
\* or halted, and no cycle() is called: a Cycle message calls it only on a Cpu
\* that is not halted.
C33_HaltedCpuStaysUntilLoad ==
    [][ (halted /\ ~(msg' = "Load" /\ parsed'.ok)) =>
            /\ UNCHANGED <<registers, memory, program_counter, instruction_register, cycle,
                           halted>>
            /\ steps' = steps ]_vars

\* C33 witness: a Cycle message found the Cpu halted by a HALT and left it as it was
C33_Witness ==
    /\ msg = "Cycle"
    /\ pre.halted
    /\ halted
    /\ Cpu = pre
    /\ instruction_register \div 4096 = 12

\* C34: Exit, FocusNext, FocusPrevious, ScrollUp, ScrollDown and KeyInput leave
\* every field of the Cpu unchanged; KeyInput leaves the program text unchanged
\* unless the focus is Program; running turns false only in an Exit and never
\* turns true.
C34_OnlyLoadAndCycleChangeCpu ==
    [][ /\ msg' \notin {"Load", "Cycle"} => UNCHANGED cpuVars
        /\ (msg' = "KeyInput" /\ focus # "Program") => program_textarea' = program_textarea
        /\ (running /\ ~running') => msg' = "Exit"
        /\ ~running => ~running' ]_vars

\* C34 witness: a KeyInput that came first, with the focus on the memory, left the text
\* of Model::default and the Cpu as they were
C34_Witness ==
    /\ msg = "KeyInput"
    /\ handled = 1
    /\ focus = "Memory"
    /\ program_textarea = Model_default.program_textarea
    /\ Cpu = Model_default.cpu

\* C35: FocusNext moves the focus Registers -> Memory -> Program -> Registers,
\* FocusPrevious moves it the other way, no other message moves it, and a
\* FocusNext and a FocusPrevious in a row, in either order, and three FocusNext
\* in a row leave the focus where it was.
C35_FocusCyclesAndInverts ==
    [][ /\ msg' = "FocusNext" => focus' = PaneAfter(focus)
        /\ msg' = "FocusPrevious" => focus = PaneAfter(focus')
        /\ msg' \notin {"FocusNext", "FocusPrevious"} => focus' = focus
        /\ FocusRestored' ]_vars

\* C35 witness: three FocusNext from the start are back at the memory pane
C35_Witness ==
    /\ handled = 3
    /\ Len(focus_log) = 3
    /\ \A i \in 1..3 : focus_log[i].msg = "FocusNext"
    /\ focus_log[1].focus = "Memory"
    /\ focus_log[2].focus = "Program"
    /\ focus_log[3].focus = "Registers"
    /\ focus = "Memory"

\* C36: registers_scroll is at most 16 and memory_scroll at most 256; a ScrollUp
\* at 0 stays at 0; ScrollUp and ScrollDown change nothing but the scroll
\* position of the pane in focus, and nothing at all when the focus is Program.
C36_ScrollStaysInPane ==
    [][ /\ registers_scroll' <= 16
        /\ memory_scroll' <= 256
        /\ (msg' = "ScrollUp" /\ registers_scroll = 0) => registers_scroll' = 0
        /\ (msg' = "ScrollUp" /\ memory_scroll = 0) => memory_scroll' = 0
        /\ msg' \in {"ScrollUp", "ScrollDown"} =>
              /\ UNCHANGED <<cpuVars, program_textarea, error_msg, running, focus, parsed>>
              /\ focus # "Registers" => registers_scroll' = registers_scroll
              /\ focus # "Memory" => memory_scroll' = memory_scroll ]_vars

\* C36 witness: a ScrollDown that came first, with the memory in focus and both panes
\* all the way down, has left them there
C36_Witness ==
    /\ msg = "ScrollDown"
    /\ handled = 1
    /\ focus_log = <<>>
    /\ focus = "Memory"
    /\ registers_scroll = 16
    /\ memory_scroll = 256

----------------------------------------------------------------------------
(* The sums of ADDFLOAT.  A caller that decoded two bytes and encoded their  *)
(* sum has done what the AddFloat arm of Cpu::execute does.                  *)

\* the n codec calls so far are two decodes, the encode of the sum of their results
\* and, for n = 4, the decode of the byte that encode returned
SumCalls(n) ==
    /\ Len(codec_log) = n
    /\ codec_log[1].call = "decode"
    /\ codec_log[2].call = "decode"
    /\ codec_log[3].call = "encode"
    /\ n = 4 => codec_log[4].call = "decode"

\* the AddFloat arm of execute for ADDFLOAT 3,1,2 on registers that hold a and b in
\* 1 and 2; the arm reads and writes nothing but the registers
AddFloatOf(a, b) ==
    execute_AddFloat([registers |-> [i \in 0..15 |-> IF i = 1 THEN a ELSE IF i = 2 THEN b ELSE 0]],
                     [code |-> "AddFloat", target_reg |-> 3, reg1 |-> 1, reg2 |-> 2],
                     overflow_checks = "on")

\* the magnitudes ADDFLOAT can produce, on the 1/256 grid from 0 to 15
SumGrid == 0..(15 * 256)

\* decode(encode(v)) for every v of SumGrid
RoundTrip == [v \in SumGrid |-> Floating_decode(Floating_encode(v, FALSE).value)]

\* C37: encode does not fail on the sum of two decoded bytes, whose magnitude
\* is at most 15, and ADDFLOAT of any two source bytes completes and leaves
\* the byte that encode returns.
C37_SumsAlwaysEncode ==
    SumCalls(3) =>
        /\ panicked = "none"
        /\ AbsInt(LastCall.arg) <= 15 * 256
        /\ LastCall.ret \in 0..255
        /\ \E res \in {AddFloatOf(codec_log[1].arg, codec_log[2].arg)} :
              /\ res.panic = "none"
              /\ res.cpu.registers[3] = LastCall.ret

\* C37 witness: 7.5 + 7.5, the largest sum, was encoded
C37_Witness ==
    /\ SumCalls(3)
    /\ codec_log[1].arg = 127
    /\ codec_log[2].arg = 127
    /\ LastCall.arg = 15 * 256
    /\ panicked = "none"

\* C38: for every sum x of two decoded bytes, decode(encode(x)) is zero or has
\* the sign of x, and its magnitude is at most that of x.
C38_EncodeNeverRoundsUp ==
    SumCalls(4) =>
        \/ LastCall.ret = 0
        \/ /\ (LastCall.ret < 0) = (codec_log[3].arg < 0)
           /\ AbsInt(LastCall.ret) <= AbsInt(codec_log[3].arg)

\* C38 witness: 0.9375 + 0.05859375 = 0.99609375 came back as 0.9375
C38_Witness ==
    /\ SumCalls(4)
    /\ codec_log[1].arg = 79
    /\ codec_log[2].arg = 15
    /\ codec_log[3].arg = 255
    /\ LastCall.ret = 240

\* C39: for all x <= y on the 1/256 grid from 0 to 15, decode(encode(x)) <=
\* decode(encode(y)).
C39_EncodeIsMonotone ==
    (Len(codec_log) = 2 /\ codec_log[1].call = "encode" /\ codec_log[1].arg \in SumGrid
                        /\ Decoded) =>
        \A y \in SumGrid : codec_log[1].arg <= y => LastCall.ret <= RoundTrip[y]

============================================================================
